---- MODULE Spec2Model ----
(***************************************************************************)
(* Model of the data cleaning and schema-unification pipeline:             *)
(*   phase 1  src/src/data_processing.py   DataIngestionPipeline           *)
(*   phase 2  src/src/api_integration.py   FreeAPIIntegrationPipeline      *)
(*                                                                         *)
(* Values.  A table cell is a record [na, v]: na is pandas' missing value  *)
(* (NaN / NaT / None), v the value otherwise.  The text of a cell that the *)
(* code parses character by character (Reviews, Size, Installs, Price) is  *)
(* a sequence of one-character strings; the text of a cell that the code   *)
(* only copies, compares or looks up (App, Category, Type, names, genres)  *)
(* is a string.  A float is an exact fraction [num, den]; den = 0 is an    *)
(* infinity.  A DataFrame is a sequence of row records; idx is the row's   *)
(* index label (its position in the table as loaded).                      *)
(***************************************************************************)
EXTENDS Integers, Sequences, FiniteSets, TLC

\* ------------------------------------------------------------------ bounds

\* Longest raw googleplaystore.csv table (rows) the specifications load.
MaxRows == 3

\* Search terms of fetch_itunes_apps_free_api that the model attempts (the
\* first NumTerms entries of search_terms).
NumTerms == 2

\* Longest raw table of the runs that go on to phase 2.
MaxRowsE2E == 2

\* The longest generated cell text of the direct calls.
MaxChars == 3

\* ------------------------------------------------------------ cell values

Frac(n, d) == [num |-> n, den |-> d]

RECURSIVE Gcd(_, _)
Gcd(a, b) == IF b = 0 THEN a ELSE Gcd(b, a % b)

Abs(n) == IF n < 0 THEN -n ELSE n

\* A fraction in lowest terms with a positive denominator (den = 0: +-inf).
Norm(n, d) ==
    IF d = 0 THEN Frac(IF n < 0 THEN -1 ELSE 1, 0)
    ELSE LET g == Gcd(Abs(n), Abs(d))
             s == IF d < 0 THEN -1 ELSE 1
         IN  Frac((s * n) \div g, (s * d) \div g)

FMul(x, k) == Norm(x.num * k, x.den)
FDiv(x, k) == Norm(x.num, x.den * k)
FZero == Frac(0, 1)
FInt(n) == Frac(n, 1)
FIsInf(x) == x.den = 0
FPos(x) == x.num > 0

\* The missing number (float nan, NaT) and a present number.
NaNNum == [na |-> TRUE, v |-> FZero]
Num(x) == [na |-> FALSE, v |-> x]

\* The missing text cell and a present text cell (v: a string).
NaNText == [na |-> TRUE, v |-> ""]
Text(s) == [na |-> FALSE, v |-> s]

\* The missing parsed cell and a present one (v: a sequence of characters).
NaNChars == [na |-> TRUE, v |-> <<>>]
Chars(s) == [na |-> FALSE, v |-> s]

\* The missing date and a present date (v: the calendar day as yyyymmdd).
NaT == [na |-> TRUE, v |-> 0]
Date(d) == [na |-> FALSE, v |-> d]

\* ----------------------------------------------------- Python str methods

Digits == {"0", "1", "2", "3", "4", "5", "6", "7", "8", "9"}

DigitVal(c) ==
    CASE c = "0" -> 0 [] c = "1" -> 1 [] c = "2" -> 2 [] c = "3" -> 3
      [] c = "4" -> 4 [] c = "5" -> 5 [] c = "6" -> 6 [] c = "7" -> 7
      [] c = "8" -> 8 [] c = "9" -> 9

Whitespace == {" "}

\* ch in s
Contains(s, ch) == \E i \in 1..Len(s) : s[i] = ch

\* s.replace(ch, '')
Remove(s, ch) == SelectSeq(s, LAMBDA c : c # ch)

RECURSIVE LStrip(_)
LStrip(s) == IF s # <<>> /\ Head(s) \in Whitespace THEN LStrip(Tail(s)) ELSE s

RECURSIVE RStrip(_)
RStrip(s) ==
    IF s # <<>> /\ s[Len(s)] \in Whitespace
    THEN RStrip(SubSeq(s, 1, Len(s) - 1)) ELSE s

\* s.strip()
Strip(s) == RStrip(LStrip(s))

LowerChar(c) ==
    CASE c = "I" -> "i" [] c = "N" -> "n" [] c = "F" -> "f" [] c = "A" -> "a"
      [] c = "T" -> "t" [] c = "Y" -> "y" [] c = "U" -> "u" [] c = "L" -> "l"
      [] c = "O" -> "o" [] c = "E" -> "e" [] c = "Q" -> "q" [] OTHER -> c

\* s.lower(), on the letters of the words the code compares with
Lower(s) == [i \in 1..Len(s) |-> LowerChar(s[i])]

RECURSIVE DigitsValue(_)
DigitsValue(s) ==
    IF s = <<>> THEN 0
    ELSE 10 * DigitsValue(SubSeq(s, 1, Len(s) - 1)) + DigitVal(s[Len(s)])

RECURSIVE Pow10(_)
Pow10(n) == IF n = 0 THEN 1 ELSE 10 * Pow10(n - 1)

AllDigits(s) == \A i \in 1..Len(s) : s[i] \in Digits

\* A parse result: ok = FALSE is a raised ValueError.
Parsed(x) == [ok |-> TRUE, val |-> x]
ValueError == [ok |-> FALSE, val |-> NaNNum]

\* The unsigned body of a float literal: digits with at most one point and at
\* least one digit, or one of the words inf, infinity, nan in any letter case.
\* (Exponents and digit-group underscores are outside the modelled alphabet.)
FloatBody(b, sign) ==
    LET w == Lower(b)
        dots == {i \in 1..Len(b) : b[i] = "."}
    IN  IF w = <<"i", "n", "f">> \/ w = <<"i", "n", "f", "i", "n", "i", "t", "y">>
        THEN Parsed(Num(Frac(sign, 0)))
        ELSE IF w = <<"n", "a", "n">> THEN Parsed(NaNNum)
        ELSE IF dots = {}
        THEN IF b # <<>> /\ AllDigits(b)
             THEN Parsed(Num(Norm(sign * DigitsValue(b), 1)))
             ELSE ValueError
        ELSE IF Cardinality(dots) = 1
        THEN LET p == CHOOSE i \in dots : TRUE
                 ip == SubSeq(b, 1, p - 1)
                 fp == SubSeq(b, p + 1, Len(b))
             IN  IF AllDigits(ip) /\ AllDigits(fp) /\ Len(ip) + Len(fp) > 0
                 THEN Parsed(Num(Norm(sign * DigitsValue(ip \o fp), Pow10(Len(fp)))))
                 ELSE ValueError
        ELSE ValueError

\* float(s) of a str: surrounding whitespace and one sign are accepted.
ParseFloat(s) ==
    LET t == Strip(s)
    IN  IF t = <<>> THEN ValueError
        ELSE IF Head(t) = "-" THEN FloatBody(Tail(t), -1)
        ELSE IF Head(t) = "+" THEN FloatBody(Tail(t), 1)
        ELSE FloatBody(t, 1)

\* int(s) of a str: whitespace, one sign, digits only.
ParseInt(s) ==
    LET t == Strip(s)
        b == IF t # <<>> /\ Head(t) \in {"+", "-"} THEN Tail(t) ELSE t
        sign == IF t # <<>> /\ Head(t) = "-" THEN -1 ELSE 1
    IN  IF b # <<>> /\ AllDigits(b)
        THEN Parsed(Num(Norm(sign * DigitsValue(b), 1)))
        ELSE ValueError

\* ------------------------------------------------- phase 1: the normalizers

\* A normalizer's outcome: raised = TRUE is an exception that leaves apply().
Returns(x) == [raised |-> FALSE, val |-> x]
Raises == [raised |-> TRUE, val |-> NaNNum]

ScaleByOne(p, k) == p.val

\* x * k of a parsed float (nan stays nan)
Scale(p, k) == IF p.val.na THEN p.val ELSE Num(FMul(p.val.v, k))
ShrinkByOne(p, k) == p.val

\* x / k of a parsed float (nan stays nan)
Shrink(p, k) == IF p.val.na THEN p.val ELSE Num(FDiv(p.val.v, k))

convert_reviews(review_str) ==
    IF review_str.na \/ review_str.v = <<"N", "a", "N">> THEN Returns(Num(FZero))
    ELSE LET s == Strip(review_str.v)
         IN  IF s = <<"0">> \/ s = <<>> THEN Returns(Num(FZero))
             ELSE IF Contains(s, "M")
             THEN LET p == ParseFloat(Remove(Remove(s, "M"), ","))
                  IN  IF p.ok THEN Returns(Scale(p, 1000000)) ELSE Raises
             ELSE IF Contains(s, "k")
             THEN LET p == ParseFloat(Remove(Remove(s, "k"), ","))
                  IN  IF p.ok THEN Returns(Scale(p, 1000)) ELSE Raises
             ELSE LET p == ParseFloat(Remove(s, ","))
                  IN  IF p.ok THEN Returns(p.val) ELSE Returns(Num(FZero))

VariesWithDevice ==
    <<"V", "a", "r", "i", "e", "s", " ", "w", "i", "t", "h", " ",
      "d", "e", "v", "i", "c", "e">>

convert_size(size_str) ==
    IF size_str.na \/ size_str.v = VariesWithDevice THEN Returns(NaNNum)
    ELSE LET s == Strip(size_str.v)
         IN  IF Contains(s, "M")
             THEN LET p == ParseFloat(Remove(Remove(s, "M"), ","))
                  IN  IF p.ok THEN Returns(p.val) ELSE Raises
             ELSE IF Contains(s, "k")
             THEN LET p == ParseFloat(Remove(Remove(s, "k"), ","))
                  IN  IF p.ok THEN Returns(Shrink(p, 1024)) ELSE Raises
             ELSE LET p == ParseFloat(s)
                  IN  IF p.ok THEN Returns(p.val) ELSE Returns(NaNNum)

convert_installs(install_str) ==
    IF install_str.na THEN Returns(Num(FZero))
    ELSE LET s == Remove(Remove(Strip(install_str.v), "+"), ",")
             p == ParseInt(s)
         IN  IF p.ok THEN Returns(p.val) ELSE Returns(Num(FZero))

convert_price(price_str) ==
    IF price_str.na THEN Returns(Num(FZero))
    ELSE LET s == Strip(price_str.v)
         IN  IF s = <<"0">> \/ s = <<"F", "r", "e", "e">> THEN Returns(Num(FZero))
             ELSE LET p == ParseFloat(Remove(s, "$"))
                  IN  IF p.ok THEN Returns(p.val) ELSE Returns(Num(FZero))

\* pd.to_datetime on the date texts of the modelled input: the calendar day
\* (yyyymmdd) of a text it can parse; any other text raises.
KnownDates ==
    [t \in {"January 7, 2018", "7 January 2018", "August 1, 2018"} |->
        IF t = "August 1, 2018" THEN 20180801 ELSE 20180107]

\* Texts that hold a time of day and no date: pd.to_datetime parses them with
\* datetime.now() as the default of the fields the text leaves out.
TimeOnlyTexts == {"10:15"}

\* The day on which the script runs (the date of datetime.now()).
Today == 20261103

convert_date(date_str) ==
    IF date_str.na THEN NaT
    ELSE IF date_str.v \in DOMAIN KnownDates THEN Date(KnownDates[date_str.v])
    ELSE IF date_str.v \in TimeOnlyTexts THEN Date(Today)
    ELSE NaT

\* ------------------------------------------------------------- the input

\* A present cell holding the characters a.
S(a) == Chars(a)

RawRow(app, cat, rating, reviews, size, installs, type, price, updated) ==
    [App |-> app, Category |-> cat, Rating |-> rating, Reviews |-> reviews,
     Size |-> size, Installs |-> installs, Type |-> type, Price |-> price,
     Last_Updated |-> updated]

Rating45 == Num(Frac(9, 2))

\* Rows of a googleplaystore.csv, as pd.read_csv returns them.  The columns
\* Content Rating, Genres, Current Ver and Android Ver are copied through the
\* pipeline untouched and are left out.
RowGame ==
    RawRow(Text("Sudoku"), Text("GAME"), Rating45, S(<<"2", ".", "3", "M">>),
           S(<<"1", "9", "M">>), S(<<"1", ",", "0", "0", "0", "+">>),
           Text("Free"), S(<<"0">>), Text("January 7, 2018"))

RowGamePaid ==
    RawRow(Text("Sudoku"), Text("GAME"), Rating45, S(<<"5", "0", "0", "k">>),
           S(<<"5", "1", "2", "k">>), S(<<"5", "0", "0", "+">>),
           Text("Paid"), S(<<"$", "4", ".", "9", "9">>), Text("August 1, 2018"))

RowNoType ==
    RawRow(Text("Notes"), NaNText, NaNNum, S(<<"0">>),
           S(VariesWithDevice), S(<<"0", "+">>),
           NaNText, S(<<"0">>), Text("August 1, 2018"))

\* The shape of the shifted row of the public data set: every column holds
\* its neighbour's value.
RowShifted ==
    RawRow(Text("Photo Frame"), Text("1.9"), Num(FInt(19)), S(<<"3", ".", "0", "M">>),
           S(<<"1", ",", "0", "0", "0", "+">>), S(<<"F", "r", "e", "e">>),
           Text("0"), S(<<"E", "v", "e", "r", "y", "o", "n", "e">>), NaNText)

RowGameSameDay ==
    RawRow(Text("Sudoku"), Text("GAME"), NaNNum, S(<<"1", "2">>),
           NaNChars, NaNChars,
           Text("Free"), S(<<"F", "r", "e", "e">>), Text("7 January 2018"))

RowGameNoDate ==
    RawRow(Text("Sudoku"), Text("FAMILY"), Rating45, NaNChars,
           S(<<"2", ".", "5">>), S(<<"1", "0">>),
           Text("Free"), NaNChars, NaNText)

RowNotesBadDate ==
    RawRow(Text("Notes"), Text("PRODUCTIVITY"), Rating45, S(<<"7">>),
           S(<<"1", "9", "M">>), S(<<"1", "0", "+">>),
           Text("Free"), S(<<"0">>), Text("Unknown"))

RowBadReviews ==
    RawRow(Text("Memo"), Text("TOOLS"), Rating45, S(<<"M", "a", "n", "y">>),
           S(<<"1", "9", "M">>), S(<<"1", "0", "+">>),
           Text("Free"), S(<<"0">>), Text("January 7, 2018"))

\* A row whose Price cell spells a special value of float().
RowInfPrice ==
    RawRow(Text("Gold"), Text("FINANCE"), Rating45, S(<<"7">>),
           S(<<"2", ".", "5">>), S(<<"1", "0", "+">>),
           Text("Paid"), S(<<"i", "n", "f">>), Text("August 1, 2018"))

\* Rows of the end-to-end runs, and all rows of the cleaning runs.
E2ESamples == {RowGame, RowGamePaid, RowNoType, RowShifted}
RawSamples ==
    E2ESamples \cup {RowGameSameDay, RowGameNoDate, RowNotesBadDate, RowBadReviews,
                     RowInfPrice}

\* Sequences of at most n elements of set X.
SeqUpTo(X, n) == UNION {[1..k -> X] : k \in 0..n}

\* A table that may not exist: a file on disk, or an attribute that is None.
NoTable == [some |-> FALSE, rows |-> <<>>]
Table(rows) == [some |-> TRUE, rows |-> rows]

\* ------------------------------------------------------------------ state

VARIABLES
    pc,             \* where the run of the scripts stands
    raw_file,       \* googleplaystore.csv on disk
    raw_data,       \* DataIngestionPipeline.raw_data
    cleaned_data,   \* DataIngestionPipeline.cleaned_data
    cleaning_stats, \* DataIngestionPipeline.cleaning_stats
    stages,         \* the stages execute_pipeline has announced (its prints)
    cleaned_csv,    \* data/processed/googleplay_cleaned.csv on disk
    hashseed,       \* the str-hash salt of the running Python process
    outbound,       \* the calls of requests.get this process has made
    google_play_data, \* FreeAPIIntegrationPipeline.google_play_data
    term_i,         \* search terms fetch_itunes_apps_free_api has attempted
    all_apps,       \* its local list all_apps
    itunes_data,    \* FreeAPIIntegrationPipeline.itunes_data
    api_stats,      \* FreeAPIIntegrationPipeline.api_stats
    unified_data,   \* FreeAPIIntegrationPipeline.unified_data
    unified_csv,    \* data/processed/unified_app_data_free_api.csv on disk
    unified_json,   \* data/processed/unified_app_data_free_api.json on disk
    fn,             \* the function a direct call has run ("none": no call)
    arg,            \* the argument of the direct call
    ret,            \* what the direct call returned, or that it raised
    generator_data, \* LLMInsightsGenerator.unified_data
    llm_insights,   \* the keys of LLMInsightsGenerator.llm_insights
    insights_report, \* reports/phase3_llm_insights_report.json on disk
    engine_data,    \* MarketIntelligenceQueryEngine.unified_data
    insights_data,  \* MarketIntelligenceQueryEngine.insights_data
    entered,        \* what input() did in the last iteration of the query loop
    printed         \* what the last reporting operation printed

phase1 == <<raw_data, cleaned_data, cleaning_stats, stages>>
phase2 == <<hashseed, outbound, google_play_data, term_i, all_apps, itunes_data,
            api_stats, unified_data>>
outputs2 == <<unified_csv, unified_json>>
call == <<fn, arg, ret>>
reporting == <<generator_data, llm_insights, insights_report, engine_data,
               insights_data, entered, printed>>

vars == <<pc, raw_file, phase1, cleaned_csv, phase2, outputs2, call, reporting>>

\* ------------------------------------------------------ phase 1: operations

\* pd.read_csv of the raw file: the rows under a RangeIndex 0..n-1.
ReadRawCsv(rows) ==
    [i \in 1..Len(rows) |-> [idx |-> i - 1, raw |-> rows[i]]]

\* DataIngestionPipeline.load_googleplay_data, as main() calls it
LoadGooglePlayData ==
    /\ pc = "start"
    /\ IF raw_file.some
       THEN /\ raw_data' = Table(ReadRawCsv(raw_file.rows))
            /\ pc' = "p1_loaded"
       ELSE /\ raw_data' = raw_data
            /\ pc' = "p1_load_failed"
    /\ UNCHANGED <<reporting, call, raw_file, cleaned_data, cleaning_stats, stages, cleaned_csv>>
    /\ UNCHANGED <<phase2, outputs2>>

\* The permutations of the positions 1..n.
Perms(n) == {p \in [1..n -> 1..n] : \A i, j \in 1..n : p[i] = p[j] => i = j}

\* df.sort_values('Last_Updated_Date', ascending=False, na_position='last')
\* with the default kind='quicksort': the rows with a date come first, latest
\* date first, rows of one date in any order (quicksort is not stable); the
\* rows without a date follow in their order in df.  A result is the sequence
\* of the positions of df in their sorted order.
SortOrdersQuick(dates) ==
    {p \in Perms(Len(dates)) :
        \A i, j \in 1..Len(dates) : i < j =>
            LET a == dates[p[i]]
                b == dates[p[j]]
            IN  /\ a.na => (b.na /\ p[i] < p[j])
                /\ (~a.na /\ ~b.na) => a.v >= b.v}

SortOrdersAscending(dates) ==
    {p \in Perms(Len(dates)) :
        \A i, j \in 1..Len(dates) : i < j =>
            LET a == dates[p[i]]
                b == dates[p[j]]
            IN  /\ a.na => (b.na /\ p[i] < p[j])
                /\ (~a.na /\ ~b.na) => a.v <= b.v}

sort_values(dates) == SortOrdersQuick(dates)

DropNothing(rows) == rows

\* df.drop_duplicates(subset=['App'], keep='first'): a row stays when no row
\* before it has its App (missing App values count as equal).
DropDuplicatesFirst(rows) ==
    SelectSeq([i \in 1..Len(rows) |-> [pos |-> i, row |-> rows[i]]],
              LAMBDA e : \A k \in 1..(e.pos - 1) : rows[k].App # e.row.App)

drop_duplicates(rows) ==
    LET kept == DropDuplicatesFirst(rows)
    IN  [i \in 1..Len(kept) |-> kept[i].row]

\* The five clean_*_column steps of execute_pipeline on one row of df.
CleanRow(r) ==
    [idx |-> r.idx,
     App |-> r.raw.App, Category |-> r.raw.Category, Rating |-> r.raw.Rating,
     Type |-> r.raw.Type,
     Reviews_Numeric |-> convert_reviews(r.raw.Reviews).val,
     Size_MB |-> convert_size(r.raw.Size).val,
     Installs_Numeric |-> convert_installs(r.raw.Installs).val,
     Price_USD |-> convert_price(r.raw.Price).val,
     Last_Updated_Date |-> convert_date(r.raw.Last_Updated)]

IsPositive(c) == ~c.na /\ FPos(c.v)
NotNa(c) == ~c.na

\* The cleaning_stats entries the five clean_*_column steps record.
ConversionStats(df) ==
    [reviews_converted |-> Cardinality({i \in 1..Len(df) : IsPositive(df[i].Reviews_Numeric)}),
     size_converted |-> Cardinality({i \in 1..Len(df) : NotNa(df[i].Size_MB)}),
     installs_converted |-> Cardinality({i \in 1..Len(df) : IsPositive(df[i].Installs_Numeric)}),
     price_converted |-> Cardinality({i \in 1..Len(df) : NotNa(df[i].Price_USD)}),
     dates_converted |-> Cardinality({i \in 1..Len(df) : NotNa(df[i].Last_Updated_Date)})]

\* DataIngestionPipeline.remove_duplicates, for one outcome p of the sort:
\* the table it returns and the statistic it records.
remove_duplicates(df, p) ==
    LET df_sorted == [i \in 1..Len(df) |-> df[p[i]]]
        df_deduplicated == drop_duplicates(df_sorted)
    IN  [df |-> df_deduplicated,
         duplicates_removed |-> Len(df) - Len(df_deduplicated)]

\* DataIngestionPipeline.validate_data_quality (the counts; the averages and
\* the rating histogram it also stores are not modelled)
validate_data_quality(df) ==
    [total_apps |-> Len(df),
     missing_ratings |-> Cardinality({i \in 1..Len(df) : df[i].Rating.na}),
     free_apps |-> Cardinality({i \in 1..Len(df) : df[i].Type = Text("Free")}),
     paid_apps |-> Cardinality({i \in 1..Len(df) : df[i].Type = Text("Paid")}),
     categories |-> Cardinality({df[i].Category : i \in {k \in 1..Len(df) : ~df[k].Category.na}})]

\* DataIngestionPipeline.create_unified_schema: the cleaned table's columns
create_cleaned_schema(df) ==
    [i \in 1..Len(df) |->
        [idx |-> df[i].idx,
         app_name |-> df[i].App, category |-> df[i].Category,
         rating |-> df[i].Rating, review_count |-> df[i].Reviews_Numeric,
         size_mb |-> df[i].Size_MB, installs |-> df[i].Installs_Numeric,
         app_type |-> df[i].Type, price_usd |-> df[i].Price_USD,
         last_updated |-> df[i].Last_Updated_Date]]

\* The first clean_*_column step in which a cell raises: 0 when none does,
\* 1 for Reviews, 2 for Size (the other three steps catch every exception).
RaisingStep(rows) ==
    IF \E i \in 1..Len(rows) : convert_reviews(rows[i].raw.Reviews).raised THEN 1
    ELSE IF \E i \in 1..Len(rows) : convert_size(rows[i].raw.Size).raised THEN 2
    ELSE 0

\* The stages of execute_pipeline, in the order of its code; it announces
\* each with a print before it runs it.
StageOrder ==
    <<"reviews", "size", "installs", "price", "date", "dedupe", "validate",
      "schema">>

StageOrderValidateFirst ==
    <<"reviews", "size", "installs", "price", "date", "validate", "dedupe",
      "schema">>

ExecutePipelineValidateFirst ==
    /\ pc \in {"start", "p1_loaded"}
    /\ LET step == RaisingStep(raw_data.rows)
           df == [i \in 1..Len(raw_data.rows) |-> CleanRow(raw_data.rows[i])]
       IN  IF ~raw_data.some
           THEN /\ pc' = "p1_no_data"
                /\ UNCHANGED <<cleaned_data, cleaning_stats, stages>>
           ELSE IF step = 1
           THEN /\ pc' = "p1_crashed"
                /\ stages' = SubSeq(StageOrderValidateFirst, 1, 1)
                /\ UNCHANGED <<cleaned_data, cleaning_stats>>
           ELSE IF step = 2
           THEN /\ pc' = "p1_crashed"
                /\ stages' = SubSeq(StageOrderValidateFirst, 1, 2)
                /\ cleaning_stats' =
                     [reviews_converted |-> ConversionStats(df).reviews_converted]
                /\ UNCHANGED cleaned_data
           ELSE \E p \in sort_values([i \in 1..Len(df) |-> df[i].Last_Updated_Date]) :
                  LET dd == remove_duplicates(df, p)
                  IN  /\ cleaning_stats' =
                           ConversionStats(df) @@
                           [duplicates_removed |-> dd.duplicates_removed,
                            quality_metrics |-> validate_data_quality(df)]
                      /\ cleaned_data' = Table(create_cleaned_schema(dd.df))
                      /\ stages' = StageOrderValidateFirst
                      /\ pc' = "p1_cleaned"
    /\ UNCHANGED <<reporting, call, raw_file, raw_data, cleaned_csv, phase2, outputs2>>

\* DataIngestionPipeline.execute_pipeline, as main() calls it after a load
\* or as a caller runs it on a pipeline that has loaded nothing
ExecutePipeline ==
    /\ pc \in {"start", "p1_loaded"}
    /\ LET step == RaisingStep(raw_data.rows)
           df == [i \in 1..Len(raw_data.rows) |-> CleanRow(raw_data.rows[i])]
       IN  IF ~raw_data.some
           THEN /\ pc' = "p1_no_data"
                /\ UNCHANGED <<cleaned_data, cleaning_stats, stages>>
           ELSE IF step = 1
           THEN /\ pc' = "p1_crashed"
                /\ stages' = SubSeq(StageOrder, 1, 1)
                /\ UNCHANGED <<cleaned_data, cleaning_stats>>
           ELSE IF step = 2
           THEN /\ pc' = "p1_crashed"
                /\ stages' = SubSeq(StageOrder, 1, 2)
                /\ cleaning_stats' =
                     [reviews_converted |-> ConversionStats(df).reviews_converted]
                /\ UNCHANGED cleaned_data
           ELSE \E p \in sort_values([i \in 1..Len(df) |-> df[i].Last_Updated_Date]) :
                  LET dd == remove_duplicates(df, p)
                  IN  /\ cleaning_stats' =
                           ConversionStats(df) @@
                           [duplicates_removed |-> dd.duplicates_removed,
                            quality_metrics |-> validate_data_quality(dd.df)]
                      /\ cleaned_data' = Table(create_cleaned_schema(dd.df))
                      /\ stages' = StageOrder
                      /\ pc' = "p1_cleaned"
    /\ UNCHANGED <<reporting, call, raw_file, raw_data, cleaned_csv, phase2, outputs2>>

\* Text that pd.read_csv reads as a missing value.
NAStrings == {"", "NA", "N/A", "NaN", "nan", "null", "NULL", "None", "n/a", "#N/A"}

CsvText(c) == IF c.na \/ c.v \in NAStrings THEN NaNText ELSE c

\* to_csv(index=False) followed by pd.read_csv of the cleaned table: the index
\* is not written; a text cell that is missing or spells a missing value reads
\* back as missing; numbers and dates read back as written.
CleanedCsvRows(rows) ==
    [i \in 1..Len(rows) |->
        [app_name |-> CsvText(rows[i].app_name),
         category |-> CsvText(rows[i].category),
         rating |-> rows[i].rating, review_count |-> rows[i].review_count,
         size_mb |-> rows[i].size_mb, installs |-> rows[i].installs,
         app_type |-> CsvText(rows[i].app_type),
         price_usd |-> rows[i].price_usd,
         last_updated |-> rows[i].last_updated]]

\* DataIngestionPipeline.save_outputs, as main() calls it
SaveOutputs ==
    /\ pc = "p1_cleaned"
    /\ cleaned_csv' = Table(CleanedCsvRows(cleaned_data.rows))
    /\ pc' = "p1_done"
    /\ UNCHANGED <<reporting, call, raw_file, raw_data, cleaned_data, cleaning_stats, stages>>
    /\ UNCHANGED <<phase2, outputs2>>

\* ------------------------------------------------ phase 2: Python values

\* A value of unknown type, as safe_convert_to_float receives it: None or a
\* float nan (pd.isna is true of both), a number, or a str (its characters).
PyNone == [kind |-> "none"]
PyNum(x) == [kind |-> "num", v |-> x]
PyStr(c) == [kind |-> "str", v |-> c]

\* The value of a numeric cell of a table row.
CellPy(c) == IF c.na THEN PyNone ELSE PyNum(c.v)

\* str(x) of a text cell: a missing cell (float nan) prints as 'nan'.
StrOf(c) == IF c.na THEN "nan" ELSE c.v

\* d.get(key, default)
DictGet(d, key, default) == IF key \in DOMAIN d THEN d[key] ELSE default

\* FreeAPIIntegrationPipeline.safe_convert_to_float: the float it returns, as
\* a numeric cell (float('+nan') is the one way it returns a nan).
safe_convert_to_float(value) ==
    IF value.kind = "none" THEN Num(FZero)
    ELSE IF value.kind = "num" THEN Num(value.v)
    ELSE LET s == Strip(value.v)
             w == Lower(s)
         IN  IF s = <<>> THEN Num(FZero)
             ELSE IF w \in {<<"n", "a", "n">>, <<"n", "u", "l", "l">>,
                            <<"n", "o", "n", "e">>}
             THEN Num(FZero)
             ELSE LET p == ParseFloat(s)
                  IN  IF p.ok THEN p.val ELSE Num(FZero)

\* int(x) of a float: truncation toward zero
Trunc(x) ==
    IF x.num >= 0 THEN FInt(x.num \div x.den) ELSE FInt(-((-x.num) \div x.den))

\* FreeAPIIntegrationPipeline.safe_convert_to_int: int() of an infinity
\* raises OverflowError and int() of a nan raises ValueError, uncaught.
safe_convert_to_int(value) ==
    LET float_val == safe_convert_to_float(value)
    IN  IF float_val.na \/ FIsInf(float_val.v) THEN Raises
        ELSE Returns(Num(Trunc(float_val.v)))

\* FreeAPIIntegrationPipeline.map_categories: the table it returns
map_categories ==
    ("ART_AND_DESIGN" :> "Creative") @@
    ("AUTO_AND_VEHICLES" :> "Lifestyle") @@
    ("BEAUTY" :> "Lifestyle") @@
    ("BOOKS_AND_REFERENCE" :> "Education") @@
    ("BUSINESS" :> "Business") @@
    ("COMICS" :> "Entertainment") @@
    ("COMMUNICATION" :> "Social") @@
    ("DATING" :> "Social") @@
    ("EDUCATION" :> "Education") @@
    ("ENTERTAINMENT" :> "Entertainment") @@
    ("EVENTS" :> "Lifestyle") @@
    ("FAMILY" :> "Family") @@
    ("FINANCE" :> "Finance") @@
    ("FOOD_AND_DRINK" :> "Food & Drink") @@
    ("GAME" :> "Games") @@
    ("HEALTH_AND_FITNESS" :> "Health & Fitness") @@
    ("HOUSE_AND_HOME" :> "Lifestyle") @@
    ("LIBRARIES_AND_DEMO" :> "Developer Tools") @@
    ("LIFESTYLE" :> "Lifestyle") @@
    ("MAPS_AND_NAVIGATION" :> "Navigation") @@
    ("MEDICAL" :> "Medical") @@
    ("MUSIC_AND_AUDIO" :> "Music") @@
    ("NEWS_AND_MAGAZINES" :> "News") @@
    ("PARENTING" :> "Family") @@
    ("PERSONALIZATION" :> "Utilities") @@
    ("PHOTOGRAPHY" :> "Photo & Video") @@
    ("PRODUCTIVITY" :> "Productivity") @@
    ("SHOPPING" :> "Shopping") @@
    ("SOCIAL" :> "Social") @@
    ("SPORTS" :> "Sports") @@
    ("TOOLS" :> "Utilities") @@
    ("TRAVEL_AND_LOCAL" :> "Travel") @@
    ("VIDEO_PLAYERS" :> "Photo & Video") @@
    ("WEATHER" :> "Weather") @@
    ("Games" :> "Games") @@
    ("Business" :> "Business") @@
    ("Education" :> "Education") @@
    ("Entertainment" :> "Entertainment") @@
    ("Finance" :> "Finance") @@
    ("Health & Fitness" :> "Health & Fitness") @@
    ("Lifestyle" :> "Lifestyle") @@
    ("Music" :> "Music") @@
    ("News" :> "News") @@
    ("Photo & Video" :> "Photo & Video") @@
    ("Productivity" :> "Productivity") @@
    ("Social Networking" :> "Social") @@
    ("Sports" :> "Sports") @@
    ("Travel" :> "Travel") @@
    ("Utilities" :> "Utilities") @@
    ("Shopping" :> "Shopping") @@
    ("Food & Drink" :> "Food & Drink") @@
    ("Medical" :> "Medical") @@
    ("Navigation" :> "Navigation") @@
    ("Reference" :> "Education") @@
    ("Weather" :> "Weather")

MapCategoryOrOther(label) ==
    IF ~label.na /\ label.v \in DOMAIN map_categories
    THEN Text(map_categories[label.v])
    ELSE Text("Other")

MapCategoryWithAlias(label) ==
    IF label.na THEN label
    ELSE IF label.v = "Social" THEN Text("Social Networking")
    ELSE Text(DictGet(map_categories, label.v, label.v))

\* category_mapping.get(label, label) on a label cell: a missing label (nan)
\* is no key of the table.
MapCategory(label) ==
    IF label.na THEN label
    ELSE Text(DictGet(map_categories, label.v, label.v))

\* ------------------------------------------------ phase 2: the environment

\* hash(s) of a str is salted per process (PYTHONHASHSEED).  The salts of the
\* model and the hash values they give the names that occur: under salt 1 two
\* names fall into one residue class of the id space, under salt 2 none do.
HashSeeds == {1, 2}

PyHash(seed, s) ==
    IF seed = 1
    THEN CASE s = "Sudoku" -> 4000123 [] s = "Notes" -> 7000123
           [] s = "Photo Frame" -> 2000055 [] s = "Memo" -> 900001
           [] OTHER -> 17
    ELSE CASE s = "Sudoku" -> 31000000 [] s = "Notes" -> 9000032
           [] s = "Photo Frame" -> 33 [] s = "Memo" -> 1000034
           [] OTHER -> 999999

\* The size of the id space of the hash-derived app_id.
IdSpace == 1000000

\* Result objects of the iTunes Search API, as response.json() gives them: a
\* dict from the keys the object carries to their values.
AppSudokuIOS ==
    [trackId |-> PyNum(FInt(1001)), trackName |-> "Sudoku",
     primaryGenreName |-> "Games", averageUserRating |-> PyNum(Frac(9, 2)),
     userRatingCount |-> PyNum(FInt(120)), price |-> PyNum(FZero),
     fileSizeBytes |-> PyStr(<<"1", "0", "4", "8", "5", "7", "6", "0">>),
     currentVersionReleaseDate |-> "2018-08-01T00:00:00Z"]

AppSudokuIOSNew ==
    [trackId |-> PyNum(FInt(1001)), trackName |-> "Sudoku Pro",
     primaryGenreName |-> "Puzzle", averageUserRating |-> PyNum(FInt(4)),
     userRatingCount |-> PyNum(FInt(125)), price |-> PyNum(Frac(199, 100)),
     fileSizeBytes |-> PyStr(<<"2", "0", "9", "7", "1", "5", "2">>),
     currentVersionReleaseDate |-> "2019-01-01T00:00:00Z"]

AppChat ==
    [trackId |-> PyNum(FInt(1002)), trackName |-> "Chat",
     primaryGenreName |-> "Social Networking",
     userRatingCount |-> PyNum(FInt(7)), price |-> PyNum(Frac(499, 100)),
     fileSizeBytes |-> PyStr(<<"0">>),
     currentVersionReleaseDate |-> "2018-01-07T00:00:00Z"]

AppBare ==
    [trackId |-> PyNum(FInt(1003)), trackName |-> "Notes"]

AppNoId ==
    [trackName |-> "Ghost", primaryGenreName |-> "Games", price |-> PyNum(FZero)]

AppZeroId ==
    [trackId |-> PyNum(FZero), trackName |-> "Zero", primaryGenreName |-> "Games"]

\* The result lists a search can answer with.
Responses ==
    {<<AppSudokuIOS, AppChat>>, <<AppBare, AppZeroId, AppSudokuIOSNew>>,
     <<AppNoId>>}

\* ------------------------------------------------------ phase 2: operations

Phase2Idle ==
    /\ hashseed = 0
    /\ outbound = <<>>
    /\ google_play_data = NoTable
    /\ term_i = 0
    /\ all_apps = <<>>
    /\ itunes_data = NoTable
    /\ api_stats = <<>>
    /\ unified_data = NoTable

\* A new Python process runs api_integration.main(): the interpreter draws
\* its hash salt and FreeAPIIntegrationPipeline.__init__ sets the attributes;
\* the objects of the process that ran phase 1 are gone.
NewPhase2Process ==
    /\ hashseed' \in HashSeeds
    /\ outbound' = <<>>
    /\ google_play_data' = NoTable
    /\ term_i' = 0
    /\ all_apps' = <<>>
    /\ itunes_data' = NoTable
    /\ api_stats' = <<>>
    /\ unified_data' = NoTable
    /\ raw_data' = NoTable
    /\ cleaned_data' = NoTable
    /\ cleaning_stats' = <<>>
    /\ stages' = <<>>
    /\ pc' = "p2_start"
    /\ UNCHANGED <<reporting, call, raw_file, cleaned_csv, outputs2>>

\* api_integration.main() is started once phase 1 has ended.
StartPhase2 ==
    /\ pc \in {"p1_done", "p1_load_failed", "p1_no_data", "p1_crashed"}
    /\ NewPhase2Process

LoadCleanedAnyway ==
    /\ pc = "p2_start"
    /\ google_play_data' = Table(cleaned_csv.rows)
    /\ pc' = "p2_fetching"
    /\ UNCHANGED <<reporting, call, raw_file, phase1, cleaned_csv, hashseed, outbound, term_i, all_apps,
                   itunes_data, api_stats, unified_data, outputs2>>

\* FreeAPIIntegrationPipeline.load_cleaned_googleplay_data, as
\* execute_pipeline calls it
LoadCleanedGooglePlayData ==
    /\ pc = "p2_start"
    /\ IF cleaned_csv.some
       THEN /\ google_play_data' = Table(cleaned_csv.rows)
            /\ pc' = "p2_fetching"
       ELSE /\ google_play_data' = google_play_data
            /\ pc' = "p2_load_failed"
    /\ UNCHANGED <<reporting, call, raw_file, phase1, cleaned_csv, hashseed, outbound, term_i, all_apps,
                   itunes_data, api_stats, unified_data, outputs2>>

\* The app_info dict built from one result object (the fields the unifier
\* reads; the copied fields artistName, contentAdvisoryRating, version,
\* minimumOsVersion and the rest are left out).
AppInfo(app) ==
    [trackId |-> DictGet(app, "trackId", PyNone),
     trackName |-> DictGet(app, "trackName", ""),
     primaryGenreName |-> DictGet(app, "primaryGenreName", ""),
     averageUserRating |-> DictGet(app, "averageUserRating", PyNum(FZero)),
     userRatingCount |-> DictGet(app, "userRatingCount", PyNum(FZero)),
     price |-> DictGet(app, "price", PyNum(FZero)),
     fileSizeBytes |-> DictGet(app, "fileSizeBytes", PyNum(FZero)),
     currentVersionReleaseDate |-> DictGet(app, "currentVersionReleaseDate", "")]

\* What one loop iteration can meet: requests.get raises; it returns a
\* response of another status than 200; it returns a 200 whose body json()
\* cannot decode (an exception after the sleep); it returns a 200 with a
\* result list.
Outcomes == {"exception", "status_other", "bad_body", "status_200"}

\* The record of one call: the term searched, what came of it, whether
\* time.sleep(0.5) ran after it, and the results it delivered.
Outbound(term, outcome, apps) ==
    [term |-> term, outcome |-> outcome, slept |-> outcome # "exception",
     apps |-> apps]

FetchTermOrGiveUp ==
    /\ pc = "p2_fetching"
    /\ term_i < NumTerms
    /\ \E outcome \in Outcomes :
          IF outcome = "status_200"
          THEN \E apps \in Responses :
                  /\ all_apps' = all_apps \o [i \in 1..Len(apps) |-> AppInfo(apps[i])]
                  /\ outbound' = Append(outbound, Outbound(term_i + 1, outcome, apps))
                  /\ term_i' = term_i + 1
          ELSE /\ all_apps' = all_apps
               /\ outbound' = Append(outbound, Outbound(term_i + 1, outcome, <<>>))
               /\ term_i' = NumTerms
    /\ UNCHANGED <<reporting, call, pc, raw_file, phase1, cleaned_csv, hashseed, google_play_data,
                   itunes_data, api_stats, unified_data, outputs2>>

\* One iteration of the loop over search_terms: the request, the sleep that
\* follows a request that returned, and the handling of the response.
FetchTerm ==
    /\ pc = "p2_fetching"
    /\ term_i < NumTerms
    /\ \E outcome \in Outcomes :
          IF outcome = "status_200"
          THEN \E apps \in Responses :
                  /\ all_apps' = all_apps \o [i \in 1..Len(apps) |-> AppInfo(apps[i])]
                  /\ outbound' = Append(outbound, Outbound(term_i + 1, outcome, apps))
          ELSE /\ all_apps' = all_apps
               /\ outbound' = Append(outbound, Outbound(term_i + 1, outcome, <<>>))
    /\ term_i' = term_i + 1
    /\ UNCHANGED <<reporting, call, pc, raw_file, phase1, cleaned_csv, hashseed, google_play_data,
                   itunes_data, api_stats, unified_data, outputs2>>

\* bool(x) of a trackId
Truthy(x) == x.kind # "none" /\ ~(x.kind = "num" /\ x.v.num = 0)

AllWithTrackId(apps) == SelectSeq(apps, LAMBDA a : Truthy(a.trackId))

FirstByTrackId(apps) ==
    LET kept == SelectSeq(apps, LAMBDA a : Truthy(a.trackId))
        first == SelectSeq([i \in 1..Len(kept) |-> [pos |-> i, app |-> kept[i]]],
                     LAMBDA e : \A k \in 1..(e.pos - 1) :
                                    kept[k].trackId # e.app.trackId)
    IN  [i \in 1..Len(first) |-> first[i].app]

\* list({app['trackId']: app for app in apps if app['trackId']}.values()): a
\* dict keeps a key at its first insertion and holds the value set last.
UniqueByTrackId(apps) ==
    LET kept == SelectSeq(apps, LAMBDA a : Truthy(a.trackId))
        first == SelectSeq([i \in 1..Len(kept) |-> [pos |-> i, app |-> kept[i]]],
                     LAMBDA e : \A k \in 1..(e.pos - 1) :
                                    kept[k].trackId # e.app.trackId)
        Last(id) == CHOOSE k \in 1..Len(kept) :
                        /\ kept[k].trackId = id
                        /\ \A m \in (k + 1)..Len(kept) : kept[m].trackId # id
    IN  [i \in 1..Len(first) |-> kept[Last(first[i].app.trackId)]]

\* The end of fetch_itunes_apps_free_api, after the loop
FetchFinish ==
    /\ pc = "p2_fetching"
    /\ term_i = NumTerms
    /\ itunes_data' = Table(UniqueByTrackId(all_apps))
    /\ api_stats' = [itunes_apps_fetched |-> Len(UniqueByTrackId(all_apps)),
                     search_terms_used |-> NumTerms,
                     api_calls_made |-> NumTerms]
    /\ pc' = "p2_fetched"
    /\ UNCHANGED <<reporting, call, raw_file, phase1, cleaned_csv, hashseed, outbound, google_play_data,
                   term_i, all_apps, unified_data, outputs2>>

\* f'gp_{hash(str(name)) % 1000000}'
AppIdGP(seed, name) == [prefix |-> "gp_", n |-> PyHash(seed, name) % IdSpace]

\* f'ios_{safe_convert_to_int(trackId)}'
AppIdIOS(trackId) == [prefix |-> "ios_", n |-> safe_convert_to_int(trackId).val.v.num]

\* The unified_app dict of one row of google_play_data (without the copied
\* fields content_rating, genres, developer, version, min_os_version).
UnifyGP(seed, row) ==
    [app_id |-> AppIdGP(seed, StrOf(row.app_name)),
     app_name |-> StrOf(row.app_name),
     platform |-> "Android",
     unified_category |-> MapCategory(row.category),
     original_category |-> row.category,
     rating |-> safe_convert_to_float(CellPy(row.rating)),
     review_count |-> safe_convert_to_float(CellPy(row.review_count)),
     installs |-> safe_convert_to_int(CellPy(row.installs)).val,
     size_mb |-> safe_convert_to_float(CellPy(row.size_mb)),
     app_type |-> StrOf(row.app_type),
     price_usd |-> safe_convert_to_float(CellPy(row.price_usd)),
     last_updated |-> row.last_updated,
     data_source |-> "Google Play Store"]

\* file_size_bytes / (1024 * 1024) if file_size_bytes > 0 else 0
SizeMbOfBytes(file_size_bytes) ==
    IF ~file_size_bytes.na /\ FPos(file_size_bytes.v)
    THEN Num(FDiv(file_size_bytes.v, 1024 * 1024))
    ELSE Num(FZero)

IsZero(c) == ~c.na /\ c.v = FZero

\* The unified_app dict of one row of itunes_data
UnifyIOS(row) ==
    [app_id |-> AppIdIOS(row.trackId),
     app_name |-> row.trackName,
     platform |-> "iOS",
     unified_category |-> MapCategory(Text(row.primaryGenreName)),
     original_category |-> Text(row.primaryGenreName),
     rating |-> safe_convert_to_float(row.averageUserRating),
     review_count |-> safe_convert_to_int(row.userRatingCount).val,
     installs |-> Num(FZero),
     size_mb |-> SizeMbOfBytes(safe_convert_to_float(row.fileSizeBytes)),
     app_type |-> IF IsZero(safe_convert_to_float(row.price)) THEN "Free" ELSE "Paid",
     price_usd |-> safe_convert_to_float(row.price),
     last_updated |-> Text(row.currentVersionReleaseDate),
     data_source |-> "iTunes App Store"]

CombineMergingNames(gp_unified, ios_unified) ==
    gp_unified \o
    SelectSeq(ios_unified,
              LAMBDA u : \A i \in 1..Len(gp_unified) : gp_unified[i].app_name # u.app_name)

\* all_unified = gp_unified + ios_unified
Combine(gp_unified, ios_unified) == gp_unified \o ios_unified

\* A safe_convert_to_int of the two loops raises.
UnifyRaises(gp, ios) ==
    \/ \E i \in 1..Len(gp) : safe_convert_to_int(CellPy(gp[i].installs)).raised
    \/ \E i \in 1..Len(ios) :
          \/ safe_convert_to_int(ios[i].trackId).raised
          \/ safe_convert_to_int(ios[i].userRatingCount).raised

\* FreeAPIIntegrationPipeline.create_unified_schema, as execute_pipeline
\* calls it
CreateUnifiedSchema ==
    /\ pc = "p2_fetched"
    /\ LET gp == google_play_data.rows
           ios == itunes_data.rows
       IN  IF UnifyRaises(gp, ios)
           THEN /\ pc' = "p2_crashed"
                /\ UNCHANGED unified_data
           ELSE /\ unified_data' =
                     Table(Combine([i \in 1..Len(gp) |-> UnifyGP(hashseed, gp[i])],
                                   [i \in 1..Len(ios) |-> UnifyIOS(ios[i])]))
                /\ pc' = "p2_unified"
    /\ UNCHANGED <<reporting, call, raw_file, phase1, cleaned_csv, hashseed, outbound, google_play_data,
                   term_i, all_apps, itunes_data, api_stats, outputs2>>

SaveUnifiedAppend ==
    /\ pc = "p2_unified"
    /\ unified_csv' = Table(unified_csv.rows \o unified_data.rows)
    /\ unified_json' = Table(unified_json.rows \o unified_data.rows)
    /\ pc' = "p2_done"
    /\ UNCHANGED <<reporting, call, raw_file, phase1, cleaned_csv, phase2>>

\* FreeAPIIntegrationPipeline.save_unified_data: the two data files it
\* writes, each holding the records of unified_data
SaveUnifiedData ==
    /\ pc = "p2_unified"
    /\ unified_csv' = Table(unified_data.rows)
    /\ unified_json' = Table(unified_data.rows)
    /\ pc' = "p2_done"
    /\ UNCHANGED <<reporting, call, raw_file, phase1, cleaned_csv, phase2>>

\* api_integration.main() is started again after a completed run.
RestartPhase2 ==
    /\ pc = "p2_done"
    /\ NewPhase2Process

\* ------------------------------------------------------------ direct calls

\* The characters the generated cell texts are written in.
CellAlphabet == {"0", "1", ",", ".", "M", "k", "+", "$", " ", "a"}

\* Cell texts of the kinds the columns of googleplaystore.csv hold.
SampleTexts ==
    {<<"1", ".", "2", "M">>, <<"5", "0", "0", "k">>, <<"1", ",", "5", "0", "0">>,
     <<"1", ",", "5", "0", "0", "k">>, <<"1", "9", "M">>, <<"5", "1", "2", "k">>,
     <<"2", ".", "5">>, <<"1", "0", ",", "0", "0", "0", "+">>,
     <<"$", "4", ".", "9", "9">>, <<"F", "r", "e", "e">>, VariesWithDevice,
     <<"M", "a", "n", "y">>, <<"u", "n", "k", "n", "o", "w", "n">>,
     <<"1", ".", "2", "M", "B">>, <<"N", "a", "N">>, <<"N", "u", "l", "l">>,
     <<"n", "o", "n", "e">>, <<"i", "n", "f">>, <<"+", "n", "a", "n">>,
     <<"I", "n", "f", "i", "n", "i", "t", "y">>}

CellTexts == SeqUpTo(CellAlphabet, MaxChars) \cup SampleTexts

\* The arguments of the direct calls: a cell of a raw column, a cell of the
\* Last Updated column, a value handed to the coercions of phase 2.
CharArgs == {[type |-> "chars", x |-> c] : c \in {NaNChars} \cup {Chars(s) : s \in CellTexts}}
DateArgs ==
    {[type |-> "date", date |-> c] :
        c \in {NaNText} \cup {Text(s) : s \in DOMAIN KnownDates \cup TimeOnlyTexts
                                                 \cup {"Unknown"}}}
PyNumArgs ==
    {[type |-> "py", value |-> PyNum(v)] :
        v \in {FZero, FInt(7), Frac(-5, 2), Frac(1, 0)}}
PyStrArgs == {[type |-> "py", value |-> PyStr(s)] : s \in CellTexts}

\* Category labels: the keys and the values of the table, labels it does not
\* know, and the missing label.
LabelArgs ==
    {[type |-> "label", label |-> c] :
        c \in {NaNText} \cup
              {Text(s) : s \in DOMAIN map_categories
                               \cup {map_categories[k] : k \in DOMAIN map_categories}
                               \cup {"Puzzle", "1.9", "game"}}}

NoCall ==
    /\ fn = "none"
    /\ arg = [type |-> "none"]
    /\ ret = Returns(NaNNum)

\* df['Reviews'].apply(convert_reviews), on one cell
CallConvertReviews ==
    /\ fn = "none" /\ arg.type = "chars"
    /\ fn' = "convert_reviews"
    /\ ret' = convert_reviews(arg.x)
    /\ UNCHANGED <<reporting, pc, raw_file, phase1, cleaned_csv, phase2, outputs2, arg>>

\* df['Size'].apply(convert_size), on one cell
CallConvertSize ==
    /\ fn = "none" /\ arg.type = "chars"
    /\ fn' = "convert_size"
    /\ ret' = convert_size(arg.x)
    /\ UNCHANGED <<reporting, pc, raw_file, phase1, cleaned_csv, phase2, outputs2, arg>>

\* df['Installs'].apply(convert_installs), on one cell
CallConvertInstalls ==
    /\ fn = "none" /\ arg.type = "chars"
    /\ fn' = "convert_installs"
    /\ ret' = convert_installs(arg.x)
    /\ UNCHANGED <<reporting, pc, raw_file, phase1, cleaned_csv, phase2, outputs2, arg>>

\* df['Price'].apply(convert_price), on one cell
CallConvertPrice ==
    /\ fn = "none" /\ arg.type = "chars"
    /\ fn' = "convert_price"
    /\ ret' = convert_price(arg.x)
    /\ UNCHANGED <<reporting, pc, raw_file, phase1, cleaned_csv, phase2, outputs2, arg>>

\* df['Last Updated'].apply(convert_date), on one cell
CallConvertDate ==
    /\ fn = "none" /\ arg.type = "date"
    /\ fn' = "convert_date"
    /\ ret' = Returns(convert_date(arg.date))
    /\ UNCHANGED <<reporting, pc, raw_file, phase1, cleaned_csv, phase2, outputs2, arg>>

\* self.safe_convert_to_float(value)
CallSafeConvertToFloat ==
    /\ fn = "none" /\ arg.type = "py"
    /\ fn' = "safe_convert_to_float"
    /\ ret' = Returns(safe_convert_to_float(arg.value))
    /\ UNCHANGED <<reporting, pc, raw_file, phase1, cleaned_csv, phase2, outputs2, arg>>

\* self.safe_convert_to_int(value)
CallSafeConvertToInt ==
    /\ fn = "none" /\ arg.type = "py"
    /\ fn' = "safe_convert_to_int"
    /\ ret' = safe_convert_to_int(arg.value)
    /\ UNCHANGED <<reporting, pc, raw_file, phase1, cleaned_csv, phase2, outputs2, arg>>

\* category_mapping.get(label, label), as create_unified_schema applies it
CallMapCategory ==
    /\ fn = "none" /\ arg.type = "label"
    /\ fn' = "map_categories"
    /\ ret' = Returns(MapCategory(arg.label))
    /\ UNCHANGED <<reporting, pc, raw_file, phase1, cleaned_csv, phase2, outputs2, arg>>

\* The same lookup, applied to the category the first lookup returned
CallMapCategoryAgain ==
    /\ fn = "map_categories" /\ arg.type = "label"
    /\ fn' = "map_categories_again"
    /\ ret' = Returns(MapCategory(ret.val))
    /\ UNCHANGED <<reporting, pc, raw_file, phase1, cleaned_csv, phase2, outputs2, arg>>

\* --------------------------------------------------- reporting: the files

\* The insights report file: absent, or holding the insights under `keys`.
NoReport == [some |-> FALSE, keys |-> {}]
Report(keys) == [some |-> TRUE, keys |-> keys]

\* What input() did (kind): nothing yet ("none"), returned a line ("line"),
\* raised EOFError ("eof"), raised KeyboardInterrupt ("interrupt").  ctrl_c:
\* a KeyboardInterrupt arrives while the command of the line is carried out.
Input(kind, text, ctrl_c) == [kind |-> kind, text |-> text, ctrl_c |-> ctrl_c]

ReportingIdle ==
    /\ generator_data = NoTable
    /\ llm_insights = {}
    /\ insights_report = NoReport
    /\ engine_data = NoTable
    /\ insights_data = NoReport
    /\ entered = Input("none", <<>>, FALSE)
    /\ printed = ""

\* The files the pipeline leaves for the raw rows `raw` and the fetched iOS
\* apps `ios`: save_outputs writes the cleaned CSV, save_unified_data the
\* unified table.
SavedFiles(raw, ios) ==
    LET df == [i \in 1..Len(raw) |-> CleanRow([idx |-> i - 1, raw |-> raw[i]])]
        cleaned == CleanedCsvRows(create_cleaned_schema(df))
    IN  [raw |-> Table(raw),
         cleaned |-> Table(cleaned),
         unified |-> Table(Combine([i \in 1..Len(cleaned) |-> UnifyGP(1, cleaned[i])],
                                   [i \in 1..Len(ios) |-> UnifyIOS(AppInfo(ios[i]))]))]

\* pd.read_csv of the unified CSV raises when the file is absent
\* (FileNotFoundError) or was written from a table without rows and so
\* without columns (EmptyDataError).
ReadUnifiedRaises(file) == ~file.some \/ file.rows = <<>>

\* pd.read_csv of the unified CSV: text that is missing or spells a missing
\* value reads back as missing; the other cells read back as written.
ReadUnifiedCsv(file) ==
    Table([i \in 1..Len(file.rows) |->
        [file.rows[i] EXCEPT !.app_name = CsvText(Text(@)),
                             !.app_type = CsvText(Text(@)),
                             !.unified_category = CsvText(@),
                             !.original_category = CsvText(@)]])

\* ------------------------------------------------ reporting: phase 3

InsightKinds ==
    {"market_trends", "competitive_analysis", "pricing_strategy", "executive_summary"}

\* The points at which no reporting process is running or the running one
\* may have ended: a new one can be started.
BetweenProcesses == pc \in {"reports", "p3_ready", "q_ready", "q_ended", "dash"}

\* llm_insights.main(): LLMInsightsGenerator.__init__ in a new process.
NewGenerator ==
    /\ BetweenProcesses
    /\ pc' = "p3_start"
    /\ generator_data' = NoTable
    /\ llm_insights' = {}
    /\ engine_data' = NoTable
    /\ insights_data' = NoReport
    /\ entered' = Input("none", <<>>, FALSE)
    /\ printed' = ""
    /\ UNCHANGED <<call, raw_file, phase1, cleaned_csv, phase2, outputs2, insights_report>>

\* LLMInsightsGenerator.load_unified_data
LoadUnifiedData ==
    /\ pc = "p3_start"
    /\ IF ReadUnifiedRaises(unified_csv)
       THEN /\ generator_data' = generator_data
            /\ printed' = "load_error"
       ELSE /\ generator_data' = ReadUnifiedCsv(unified_csv)
            /\ printed' = "loaded"
    /\ pc' = "p3_ready"
    /\ UNCHANGED <<call, raw_file, phase1, cleaned_csv, phase2, outputs2>>
    /\ UNCHANGED <<llm_insights, insights_report, engine_data, insights_data, entered>>

\* generate_market_trends_analysis, generate_competitive_analysis,
\* generate_pricing_strategy, generate_executive_summary: each stores what
\* generate_data_driven_insights returns under its key; the group-by on
\* unified_data raises when the table was not loaded.
GenerateInsights ==
    /\ pc = "p3_ready"
    /\ \E kind \in InsightKinds :
          IF generator_data.some
          THEN /\ llm_insights' = llm_insights \cup {kind}
               /\ printed' = kind
          ELSE /\ llm_insights' = llm_insights
               /\ printed' = "traceback"
    /\ UNCHANGED <<call, pc, raw_file, phase1, cleaned_csv, phase2, outputs2>>
    /\ UNCHANGED <<generator_data, insights_report, engine_data, insights_data, entered>>

\* LLMInsightsGenerator.save_llm_insights: calculate_confidence_scores reads
\* unified_data (and raises without it) before the report file is written.
SaveLLMInsights ==
    /\ pc = "p3_ready"
    /\ IF generator_data.some
       THEN /\ insights_report' = Report(llm_insights)
            /\ printed' = "saved"
       ELSE /\ insights_report' = insights_report
            /\ printed' = "traceback"
    /\ UNCHANGED <<call, pc, raw_file, phase1, cleaned_csv, phase2, outputs2>>
    /\ UNCHANGED <<generator_data, llm_insights, engine_data, insights_data, entered>>

\* ------------------------------------------------ reporting: the queries

\* A query method returned after printing `out`, or raised.
Shown(out) == [raised |-> FALSE, out |-> out]
TypeError == [raised |-> TRUE, out |-> "traceback"]

\* self.unified_data[...] raises TypeError while unified_data is None.
query_top_categories(data, limit) ==
    IF ~data.some THEN TypeError ELSE Shown("top_categories")

query_platform_comparison(data) ==
    IF ~data.some THEN TypeError ELSE Shown("platform_comparison")

query_category_analysis(data, category) ==
    IF ~data.some THEN TypeError
    ELSE IF \A i \in 1..Len(data.rows) : data.rows[i].unified_category # Text(category)
    THEN Shown("not_found")
    ELSE Shown("category_analysis")

query_pricing_insights(data) ==
    IF ~data.some THEN TypeError ELSE Shown("pricing_insights")

query_market_opportunities(data) ==
    IF ~data.some THEN TypeError ELSE Shown("market_opportunities")

query_ai_insights_summary(insights) ==
    IF ~insights.some THEN Shown("no_insights") ELSE Shown("ai_insights")

\* MarketIntelligenceQueryEngine.__init__ in a new process: load_all_data
\* reads the unified CSV, then the insights report; the first failure ends
\* it and leaves what was not yet read at None.
NewEngine ==
    /\ BetweenProcesses
    /\ pc' = "q_ready"
    /\ IF ReadUnifiedRaises(unified_csv)
       THEN /\ engine_data' = NoTable
            /\ insights_data' = NoReport
            /\ printed' = "load_error"
       ELSE /\ engine_data' = ReadUnifiedCsv(unified_csv)
            /\ insights_data' = insights_report
            /\ printed' = IF insights_report.some THEN "loaded" ELSE "load_error"
    /\ generator_data' = NoTable
    /\ llm_insights' = {}
    /\ entered' = Input("none", <<>>, FALSE)
    /\ UNCHANGED <<call, raw_file, phase1, cleaned_csv, phase2, outputs2, insights_report>>

\* What run_cli_mode prints for its option: the method the option selects,
\* called with its argument; an exception leaves the traceback.
CliOutcomes(data, insights) ==
    {query_top_categories(data, 5),
     query_platform_comparison(data),
     query_category_analysis(data, "Games"),
     query_category_analysis(data, "Nosuch"),
     query_pricing_insights(data),
     query_market_opportunities(data),
     query_ai_insights_summary(insights)}

RunCliModeKeepingPaid ==
    /\ pc = "q_ready"
    /\ \E r \in CliOutcomes(engine_data, insights_data) : printed' = r.out
    /\ engine_data' =
         [engine_data EXCEPT
            !.rows = SelectSeq(@, LAMBDA r : ~r.price_usd.na /\ FPos(r.price_usd.v))]
    /\ UNCHANGED <<call, pc, raw_file, phase1, cleaned_csv, phase2, outputs2>>
    /\ UNCHANGED <<generator_data, llm_insights, insights_report, insights_data, entered>>

\* MarketIntelligenceQueryEngine.run_cli_mode with one of its query options
RunCliMode ==
    /\ pc = "q_ready"
    /\ \E r \in CliOutcomes(engine_data, insights_data) : printed' = r.out
    /\ engine_data' = engine_data
    /\ UNCHANGED <<call, pc, raw_file, phase1, cleaned_csv, phase2, outputs2>>
    /\ UNCHANGED <<generator_data, llm_insights, insights_report, insights_data, entered>>

\* ------------------------------------------- reporting: the query loop

\* The words the loop compares the query with.
Cmd ==
    [quit |-> <<"q", "u", "i", "t">>,
     exit |-> <<"e", "x", "i", "t">>,
     help |-> <<"h", "e", "l", "p">>,
     categories |-> <<"c", "a", "t", "e", "g", "o", "r", "i", "e", "s">>,
     platforms |-> <<"p", "l", "a", "t", "f", "o", "r", "m", "s">>,
     category |-> <<"c", "a", "t", "e", "g", "o", "r", "y">>,
     pricing |-> <<"p", "r", "i", "c", "i", "n", "g">>,
     opportunities |-> <<"o", "p", "p", "o", "r", "t", "u", "n", "i", "t", "i", "e", "s">>,
     insights |-> <<"i", "n", "s", "i", "g", "h", "t", "s">>,
     summary |-> <<"s", "u", "m", "m", "a", "r", "y">>]

\* Other lines typed at the prompt.
Typed ==
    [QUIT |-> <<" ", "Q", "U", "I", "T", " ">>,
     categories_1 |->
       <<"c", "a", "t", "e", "g", "o", "r", "i", "e", "s", " ", "1">>,
     categories_abc |->
       <<"c", "a", "t", "e", "g", "o", "r", "i", "e", "s", " ", "a", "b",
        "c">>,
     category_games |->
       <<"c", "a", "t", "e", "g", "o", "r", "y", " ", "g", "a", "m", "e",
        "s">>,
     category_social |->
       <<"c", "a", "t", "e", "g", "o", "r", "y", " ", "s", "o", "c", "i",
        "a", "l", " ", "n", "e", "t", "w", "o", "r", "k", "i", "n", "g">>,
     category_nosuch |->
       <<"c", "a", "t", "e", "g", "o", "r", "y", " ", "n", "o", "s", "u",
        "c", "h">>,
     foo |-> <<"f", "o", "o">>,
     empty |-> <<>>]

\* The lines input() returns.
Lines ==
    {Cmd.quit, Cmd.exit, Typed.QUIT, Cmd.help, Cmd.categories, Typed.categories_1,
     Typed.categories_abc, Cmd.platforms, Cmd.category, Typed.category_games,
     Typed.category_social, Typed.category_nosuch, Cmd.pricing, Cmd.opportunities,
     Cmd.insights, Cmd.summary, Typed.foo, Typed.empty}

\* s.startswith(p)
StartsWith(s, p) == Len(s) >= Len(p) /\ SubSeq(s, 1, Len(p)) = p

\* s.split(): the words between runs of whitespace
RECURSIVE Split(_)
Split(s) ==
    LET t == LStrip(s)
        ends == {i \in 1..Len(t) : t[i] \in Whitespace}
        n == IF ends = {} THEN Len(t) + 1
             ELSE CHOOSE i \in ends : \A j \in ends : i <= j
    IN  IF t = <<>> THEN <<>>
        ELSE <<SubSeq(t, 1, n - 1)>> \o Split(SubSeq(t, n, Len(t)))

\* ' '.join(words).title(), as the label it spells (for the names typed)
Title(words) ==
    CASE words = <<<<"g", "a", "m", "e", "s">>>> -> "Games"
      [] words = <<<<"s", "o", "c", "i", "a", "l">>,
                   <<"n", "e", "t", "w", "o", "r", "k", "i", "n", "g">>>> -> "Social Networking"
      [] OTHER -> "Nosuch"

\* What one iteration of the loop did: printed `out` and went on, or left
\* the loop.
Said(out) == [out |-> out, stop |-> FALSE]
Broke(out) == [out |-> out, stop |-> TRUE]

OnExceptionBreak == Broke("error")

\* except Exception as e: print
OnException == Said("error")

\* The branch of the loop a query line takes.  A KeyboardInterrupt or an
\* exception in a call leaves the try block; the bare except of the
\* 'categories' branch catches both and calls query_top_categories() again.
Dispatch(query, ctrl_c, data, insights) ==
    LET words == Split(query)
        Call(r) == IF ctrl_c THEN Broke("interrupted")
                   ELSE IF r.raised THEN OnException
                   ELSE Said(r.out)
        Again(r) == IF r.raised THEN OnException ELSE Said(r.out)
    IN  IF query = Cmd.quit \/ query = Cmd.exit THEN Broke("goodbye")
        ELSE IF query = Cmd.help THEN Call(Shown("help"))
        ELSE IF StartsWith(query, Cmd.categories)
        THEN LET limit == IF Len(words) > 1 THEN ParseInt(words[2]) ELSE Parsed(10)
             IN  IF ~limit.ok
                 THEN Call(query_top_categories(data, 10))
                 ELSE IF ctrl_c \/ query_top_categories(data, limit.val).raised
                 THEN Again(query_top_categories(data, 10))
                 ELSE Said(query_top_categories(data, limit.val).out)
        ELSE IF query = Cmd.platforms THEN Call(query_platform_comparison(data))
        ELSE IF StartsWith(query, Cmd.category)
        THEN IF Len(words) > 1
             THEN Call(query_category_analysis(data, Title(Tail(words))))
             ELSE Call(Shown("usage"))
        ELSE IF query = Cmd.pricing THEN Call(query_pricing_insights(data))
        ELSE IF query = Cmd.opportunities THEN Call(query_market_opportunities(data))
        ELSE IF query = Cmd.insights THEN Call(query_ai_insights_summary(insights))
        ELSE IF query = Cmd.summary THEN Call(IF ~data.some THEN TypeError ELSE Shown("summary"))
        ELSE Call(Shown("unknown"))

\* main() with no arguments, or run_cli_mode with --interactive
InteractiveQueryMode ==
    /\ pc = "q_ready"
    /\ pc' = "q_prompt"
    /\ printed' = "banner"
    /\ UNCHANGED <<call, raw_file, phase1, cleaned_csv, phase2, outputs2>>
    /\ UNCHANGED <<generator_data, llm_insights, insights_report, engine_data,
                   insights_data, entered>>

\* One iteration of the while loop of interactive_query_mode.
ReadQuery ==
    /\ pc = "q_prompt"
    /\ \E e \in {Input("eof", <<>>, FALSE), Input("interrupt", <<>>, FALSE)}
             \cup {Input("line", text, c) : text \in Lines, c \in BOOLEAN} :
          LET did == IF e.kind = "interrupt" THEN Broke("interrupted")
                     ELSE IF e.kind = "eof" THEN OnException
                     ELSE Dispatch(Lower(Strip(e.text)), e.ctrl_c, engine_data, insights_data)
          IN  /\ entered' = e
              /\ printed' = did.out
              /\ pc' = IF did.stop THEN "q_ended" ELSE "q_prompt"
    /\ UNCHANGED <<call, raw_file, phase1, cleaned_csv, phase2, outputs2>>
    /\ UNCHANGED <<generator_data, llm_insights, insights_report, engine_data,
                   insights_data>>

\* ------------------------------------------------ reporting: the dashboard

\* generate_executive_dashboard, in a new process: it reads the two files
\* into locals and prints; any exception is caught and reported.
GenerateExecutiveDashboard ==
    /\ BetweenProcesses
    /\ pc' = "dash"
    /\ printed' = IF ReadUnifiedRaises(unified_csv) \/ ~insights_report.some
                  THEN "dashboard_error" ELSE "dashboard"
    /\ generator_data' = NoTable
    /\ llm_insights' = {}
    /\ engine_data' = NoTable
    /\ insights_data' = NoReport
    /\ entered' = Input("none", <<>>, FALSE)
    /\ UNCHANGED <<call, raw_file, phase1, cleaned_csv, phase2, outputs2, insights_report>>

\* ---------------------------------------------------------- specifications

InitClean ==
    /\ pc = "start"
    /\ raw_file \in {NoTable} \cup {Table(t) : t \in SeqUpTo(RawSamples, MaxRows)}
    /\ raw_data = NoTable
    /\ cleaned_data = NoTable
    /\ cleaning_stats = <<>>
    /\ stages = <<>>
    /\ cleaned_csv = NoTable
    /\ Phase2Idle
    /\ ReportingIdle
    /\ unified_csv = NoTable
    /\ unified_json = NoTable
    /\ NoCall

NextClean == LoadGooglePlayData \/ ExecutePipeline \/ SaveOutputs

\* The cleaning script (phase 1) alone, on every table of at most MaxRows rows.
SpecClean == InitClean /\ [][NextClean]_vars

Init ==
    /\ pc = "start"
    /\ raw_file \in {NoTable} \cup {Table(t) : t \in SeqUpTo(E2ESamples, MaxRowsE2E)}
    /\ raw_data = NoTable
    /\ cleaned_data = NoTable
    /\ cleaning_stats = <<>>
    /\ stages = <<>>
    /\ cleaned_csv = NoTable
    /\ Phase2Idle
    /\ ReportingIdle
    /\ unified_csv = NoTable
    /\ unified_json = NoTable
    /\ NoCall

Next ==
    \/ LoadGooglePlayData
    \/ ExecutePipeline
    \/ SaveOutputs
    \/ StartPhase2
    \/ LoadCleanedGooglePlayData
    \/ FetchTerm
    \/ FetchFinish
    \/ CreateUnifiedSchema
    \/ SaveUnifiedData

\* Phase 1 followed by phase 2, on every table of at most MaxRowsE2E rows.
Spec == Init /\ [][Next]_vars

\* The for loop of fetch_itunes_apps_free_api keeps running: an iteration
\* that can be taken is taken, and so is the code after the loop.
SpecFetch ==
    Init /\ [][Next]_vars /\ WF_vars(FetchTerm) /\ WF_vars(FetchFinish)

NextRerun == Next \/ RestartPhase2

\* Phase 1 once, then phase 2 any number of times, each in a new process.
SpecRerun == Init /\ [][NextRerun]_vars

InitCalls ==
    /\ pc = "call"
    /\ raw_file = NoTable
    /\ raw_data = NoTable
    /\ cleaned_data = NoTable
    /\ cleaning_stats = <<>>
    /\ stages = <<>>
    /\ cleaned_csv = NoTable
    /\ Phase2Idle
    /\ ReportingIdle
    /\ unified_csv = NoTable
    /\ unified_json = NoTable
    /\ fn = "none"
    /\ \/ arg \in CharArgs
       \/ arg \in DateArgs
       \/ arg = [type |-> "py", value |-> PyNone]
       \/ arg \in PyNumArgs
       \/ arg \in PyStrArgs
       \/ arg \in LabelArgs
    /\ ret = Returns(NaNNum)

NextCalls ==
    \/ CallConvertReviews
    \/ CallConvertSize
    \/ CallConvertInstalls
    \/ CallConvertPrice
    \/ CallConvertDate
    \/ CallSafeConvertToFloat
    \/ CallSafeConvertToInt
    \/ CallMapCategory
    \/ CallMapCategoryAgain

\* One call of a normalizer or of a coercion, on every argument of the sets
\* above.
SpecCalls == InitCalls /\ [][NextCalls]_vars

InitReport ==
    /\ pc = "reports"
    /\ \E a \in 0..1, b \in 0..2 :
          LET files == SavedFiles(SubSeq(<<RowGame>>, 1, a),
                                  SubSeq(<<AppSudokuIOS, AppChat>>, 1, b))
          IN  /\ raw_file = files.raw
              /\ cleaned_csv = files.cleaned
              /\ unified_csv \in {NoTable, files.unified}
              /\ unified_json = unified_csv
    /\ raw_data = NoTable
    /\ cleaned_data = NoTable
    /\ cleaning_stats = <<>>
    /\ stages = <<>>
    /\ Phase2Idle
    /\ ReportingIdle
    /\ NoCall

NextReport ==
    \/ NewGenerator
    \/ LoadUnifiedData
    \/ GenerateInsights
    \/ SaveLLMInsights
    \/ NewEngine
    \/ RunCliMode
    \/ InteractiveQueryMode
    \/ ReadQuery
    \/ GenerateExecutiveDashboard

\* The reporting scripts (phase 3, the query engine, the dashboard), each in
\* a process of its own, in any order and number, after the pipeline has
\* written its files or has failed to.
SpecReport == InitReport /\ [][NextReport]_vars

\* ------------------------------------------------- claims: deduplication

\* execute_pipeline has returned the cleaned table of this run.
Cleaned == pc \in {"p1_cleaned", "p1_done"}

\* The Last_Updated_Date of the idx-th row of the loaded table.
DateOfRaw(r) == convert_date(r.raw.Last_Updated)

RawRowsOf(app) == {i \in 1..Len(raw_data.rows) : raw_data.rows[i].raw.App = app}

\* C1: for every App key, the row remove_duplicates retains is a row of the
\* input with that key whose Last_Updated_Date is the latest of the key's
\* rows; a row without a date is never retained when a row of the key has one.
C1_LatestRetained ==
    Cleaned =>
        \A k \in 1..Len(cleaned_data.rows) :
            LET c == cleaned_data.rows[k]
                src == raw_data.rows[c.idx + 1]
            IN  /\ src.raw.App = c.app_name
                /\ DateOfRaw(src) = c.last_updated
                /\ \A i \in RawRowsOf(c.app_name) :
                      LET d == DateOfRaw(raw_data.rows[i])
                      IN  ~d.na => (~c.last_updated.na /\ c.last_updated.v >= d.v)

\* C1 witness: a key with a dated row that is not the latest standing first
\* in the input, a later-dated row and an undated row; the cleaned table is out.
C1_Witness ==
    /\ Cleaned
    /\ \E k \in 1..Len(cleaned_data.rows) :
          LET c == cleaned_data.rows[k]
              grp == RawRowsOf(c.app_name)
          IN  /\ c.idx > 0
              /\ \E i, j \in grp :
                    /\ i < c.idx + 1
                    /\ ~DateOfRaw(raw_data.rows[i]).na
                    /\ DateOfRaw(raw_data.rows[i]).v < c.last_updated.v
                    /\ DateOfRaw(raw_data.rows[j]).na

\* C2: when several rows of a key tie for the latest Last_Updated_Date, or all
\* rows of the key have no date, the retained row is the one that stands first
\* in the input.
C2_FirstOfTiesRetained ==
    Cleaned =>
        \A k \in 1..Len(cleaned_data.rows) :
            LET c == cleaned_data.rows[k]
            IN  \A i \in RawRowsOf(c.app_name) :
                    DateOfRaw(raw_data.rows[i]) = c.last_updated => c.idx <= i - 1

\* C3: the output of remove_duplicates holds exactly one row for each App key
\* of the input, and duplicates_removed is the number of input rows minus the
\* number of output rows, which is not negative.
C3_OneRowPerKey ==
    Cleaned =>
        /\ \A i \in 1..Len(raw_data.rows) :
              Cardinality({k \in 1..Len(cleaned_data.rows) :
                  cleaned_data.rows[k].app_name = raw_data.rows[i].raw.App}) = 1
        /\ \A k \in 1..Len(cleaned_data.rows) :
              RawRowsOf(cleaned_data.rows[k].app_name) # {}
        /\ cleaning_stats.duplicates_removed =
              Len(raw_data.rows) - Len(cleaned_data.rows)
        /\ cleaning_stats.duplicates_removed >= 0

\* C3 witness: a table of two keys, one of them on several rows, is cleaned.
C3_Witness ==
    /\ Cleaned
    /\ Len(cleaned_data.rows) = 2
    /\ cleaning_stats.duplicates_removed >= 1

\* ------------------------------------------------- claims: unification

\* create_unified_schema of phase 2 has built unified_data in this run.
Unified == pc \in {"p2_unified", "p2_done"}

URows == unified_data.rows
NGP == Len(google_play_data.rows)
NIOS == Len(itunes_data.rows)

\* C4 as stated: no two distinct rows of unified_data carry the same app_id.
C4_AppIdUnique ==
    Unified =>
        \A i, j \in 1..Len(URows) : i # j => URows[i].app_id # URows[j].app_id

\* C4 as amended: an iOS row shares its app_id with no other row, and two
\* Android rows share an app_id exactly when the hashes of their names are
\* congruent modulo 1000000.
C4_OnlyHashCollisions ==
    Unified =>
        \A i, j \in 1..Len(URows) : i # j =>
            IF URows[i].platform = "Android" /\ URows[j].platform = "Android"
            THEN (URows[i].app_id = URows[j].app_id) <=>
                    (PyHash(hashseed, URows[i].app_name) % IdSpace =
                     PyHash(hashseed, URows[j].app_name) % IdSpace)
            ELSE URows[i].app_id # URows[j].app_id

\* C4 witness: the searches returned one trackId twice, and the unified table
\* holds two iOS rows and two Android rows.
C4_Witness ==
    /\ Unified
    /\ \E a, b \in 1..Len(all_apps) : a # b /\ Truthy(all_apps[a].trackId)
                                      /\ all_apps[a].trackId = all_apps[b].trackId
    /\ NIOS >= 2
    /\ NGP >= 2

\* C5: a run of create_unified_schema gives every Android entity (an app
\* name) the app_id that the earlier run, whose table is on disk, gave it
\* (an iOS app_id is the trackId itself).
C5_AppIdStable ==
    (Unified /\ unified_csv.some) =>
        \A i \in 1..Len(URows) : \A k \in 1..Len(unified_csv.rows) :
            (/\ URows[i].platform = "Android"
             /\ unified_csv.rows[k].platform = "Android"
             /\ URows[i].app_name = unified_csv.rows[k].app_name)
            => URows[i].app_id = unified_csv.rows[k].app_id

\* C6: every row of the unified table has a unified_category that is neither
\* missing nor empty.
C6_CategoryNonEmpty ==
    Unified =>
        \A i \in 1..Len(URows) :
            ~URows[i].unified_category.na /\ URows[i].unified_category.v # ""

\* The unified category the claim C7 gives a source label.
C7_Expected(label) ==
    IF ~label.na /\ label.v \in DOMAIN map_categories
    THEN Text(map_categories[label.v])
    ELSE label

\* C7: the unified_category of a row is the table's value for the row's source
\* label when the label is a key of the table of map_categories, and the
\* source label unchanged otherwise.
C7_MappedOrIdentity ==
    Unified =>
        /\ Len(URows) = NGP + NIOS
        /\ \A i \in 1..NGP :
              URows[i].unified_category = C7_Expected(google_play_data.rows[i].category)
        /\ \A j \in 1..NIOS :
              URows[NGP + j].unified_category =
                  C7_Expected(Text(itunes_data.rows[j].primaryGenreName))

\* C7 witness: the unified table holds a label the table maps to another
\* name and a label that is no key of the table.
C7_Witness ==
    /\ Unified
    /\ \E i, j \in 1..Len(URows) :
          /\ URows[i].original_category = Text("GAME")
          /\ URows[i].unified_category = Text("Games")
          /\ ~URows[j].original_category.na
          /\ URows[j].original_category.v \notin DOMAIN map_categories
          /\ URows[j].original_category.v # ""

\* C8: unified_data is the Android rows in the order of google_play_data
\* followed by the iOS rows in the order of itunes_data, one row for each
\* source row.
C8_Concatenation ==
    Unified =>
        /\ Len(URows) = NGP + NIOS
        /\ \A i \in 1..NGP :
              /\ URows[i].platform = "Android"
              /\ URows[i].app_name = StrOf(google_play_data.rows[i].app_name)
              /\ URows[i].original_category = google_play_data.rows[i].category
        /\ \A j \in 1..NIOS :
              /\ URows[NGP + j].platform = "iOS"
              /\ URows[NGP + j].app_name = itunes_data.rows[j].trackName
              /\ URows[NGP + j].app_id.prefix = "ios_"
              /\ PyNum(FInt(URows[NGP + j].app_id.n)) = itunes_data.rows[j].trackId

\* C8 witness: an Android entity and an iOS entity of one name are unified,
\* with a second row on each platform.
C8_Witness ==
    /\ Unified
    /\ NGP >= 2
    /\ NIOS >= 2
    /\ \E i \in 1..NGP : \E j \in 1..NIOS :
          StrOf(google_play_data.rows[i].app_name) = itunes_data.rows[j].trackName

\* C9: every unified row whose price is zero has app_type "Free", and every
\* unified row of a game (GAME on Android, Games on iOS) has
\* unified_category "Games".
C9_ZeroPriceIsFree ==
    Unified =>
        \A i \in 1..Len(URows) :
            /\ IsZero(URows[i].price_usd) => URows[i].app_type = "Free"
            /\ URows[i].original_category \in {Text("GAME"), Text("Games")}
                  => URows[i].unified_category = Text("Games")

\* C10: a record whose Size is "Varies with device" has a missing size_mb in
\* the cleaned table, and an Android record whose size_mb is missing in the
\* cleaned table has a missing size_mb in the unified table.
C10_UnknownSizeStaysMissing ==
    /\ Cleaned =>
          \A k \in 1..Len(cleaned_data.rows) :
              raw_data.rows[cleaned_data.rows[k].idx + 1].raw.Size = Chars(VariesWithDevice)
                  => cleaned_data.rows[k].size_mb.na
    /\ Unified =>
          \A i \in 1..NGP :
              google_play_data.rows[i].size_mb.na => URows[i].size_mb.na

\* ---------------------------------------------------- claims: normalizers

\* C11: convert_reviews never throws: whatever the cell holds, text with an
\* 'M' or a 'k' and a non-numeric remainder included, the call returns.
C11_ReviewsNeverRaises ==
    fn = "convert_reviews" => ~ret.raised

\* A decimal numeral: digits, or digits '.' digits.
IsDecimal(b) ==
    LET dots == {i \in 1..Len(b) : b[i] = "."}
    IN  IF dots = {} THEN b # <<>> /\ AllDigits(b)
        ELSE /\ Cardinality(dots) = 1
             /\ LET d == CHOOSE i \in dots : TRUE
                IN  /\ 1 < d /\ d < Len(b)
                    /\ AllDigits(SubSeq(b, 1, d - 1))
                    /\ AllDigits(SubSeq(b, d + 1, Len(b)))

\* The number a decimal numeral denotes.
DecimalValue(b) ==
    LET ds == Remove(b, ".")
        dots == {i \in 1..Len(b) : b[i] = "."}
        places == IF dots = {} THEN 0 ELSE Len(b) - (CHOOSE i \in dots : TRUE)
    IN  Norm(DigitsValue(ds), Pow10(places))

\* The magnitude letter a text ends with ("" when it ends with none), and the
\* text before it.
SuffixOf(t) == IF t # <<>> /\ t[Len(t)] \in {"k", "M"} THEN t[Len(t)] ELSE ""
BodyOf(t) == IF SuffixOf(t) = "" THEN t ELSE SubSeq(t, 1, Len(t) - 1)

\* A well-formed count: a decimal numeral that may hold thousands separators,
\* with or without a magnitude letter.
WellFormedCount(t) ==
    /\ BodyOf(t) # <<>> /\ Head(BodyOf(t)) \in Digits
    /\ IsDecimal(Remove(BodyOf(t), ","))

CountOf(t) ==
    FMul(DecimalValue(Remove(BodyOf(t), ",")),
         CASE SuffixOf(t) = "M" -> 1000000 [] SuffixOf(t) = "k" -> 1000
           [] OTHER -> 1)

WellFormedSize(t) == IsDecimal(BodyOf(t))

SizeOf(t) ==
    IF SuffixOf(t) = "k" THEN FDiv(DecimalValue(BodyOf(t)), 1024)
    ELSE DecimalValue(BodyOf(t))

\* C13: convert_size returns the missing value for "Varies with device" and
\* for a missing cell, the bare number for a numeral with no letter or with
\* 'M', and the number divided by 1024 for a numeral with 'k'.
C13_WellFormedSizes ==
    fn = "convert_size" =>
        /\ (arg.x.na \/ arg.x.v = VariesWithDevice) => ret = Returns(NaNNum)
        /\ (~arg.x.na /\ WellFormedSize(arg.x.v)) =>
               ret = Returns(Num(SizeOf(arg.x.v)))

C13_Witness ==
    /\ fn = "convert_size"
    /\ arg.x = Chars(<<"5", "1", "2", "k">>)
    /\ ret = Returns(Num(Frac(1, 2)))

\* C14: convert_size never throws: whatever the cell holds, text with an 'M'
\* or a 'k' and a non-numeric remainder included, the call returns a number
\* or the missing value.
C14_SizeNeverRaises ==
    fn = "convert_size" => ~ret.raised

\* The text without the '+' characters it ends with.
RECURSIVE WithoutTrailingPlus(_)
WithoutTrailingPlus(t) ==
    IF t # <<>> /\ t[Len(t)] = "+"
    THEN WithoutTrailingPlus(SubSeq(t, 1, Len(t) - 1)) ELSE t

\* The install count a text denotes: the integer left when the trailing '+'
\* and the thousands separators are taken away, 0 when that is no integer.
InstallsOf(t) ==
    LET p == ParseInt(Remove(WithoutTrailingPlus(Strip(t)), ","))
    IN  IF p.ok THEN p.val ELSE Num(FZero)

\* C15: convert_installs strips a trailing '+' and the thousands separators
\* and returns the remaining integer; for a remainder that is not numeric
\* and for a missing cell it returns 0; it never raises.
C15_TrailingPlusStripped ==
    fn = "convert_installs" =>
        /\ ~ret.raised
        /\ arg.x.na => ret.val = Num(FZero)
        /\ ~arg.x.na => ret.val = InstallsOf(arg.x.v)

\* C16: convert_price returns the amount of a priced text ("$4.99" gives
\* 4.99) and 0.0 for "Free", for an empty or missing cell and for text it
\* cannot parse: the result is always a finite number.
C16_PriceFinite ==
    fn = "convert_price" =>
        /\ ~ret.raised /\ ~ret.val.na /\ ~FIsInf(ret.val.v)
        /\ (arg.x.na \/ arg.x.v \in {<<>>, <<"F", "r", "e", "e">>}) =>
               ret.val = Num(FZero)
        /\ arg.x = Chars(<<"$", "4", ".", "9", "9">>) =>
               ret.val = Num(Frac(499, 100))

\* C17: convert_date returns the calendar date of a cell that holds one and
\* the missing value for a missing cell and for any other text; it never
\* raises and never puts the current day in the place of a date.
C17_DateParsedOrMissing ==
    fn = "convert_date" =>
        /\ ~ret.raised
        /\ ret.val # Date(Today)
        /\ IF ~arg.date.na /\ arg.date.v \in DOMAIN KnownDates
           THEN ret.val = Date(KnownDates[arg.date.v])
           ELSE ret.val = NaT

\* C18: safe_convert_to_float and safe_convert_to_int never raise; a missing
\* value and a string that after trimming is empty or spells nan, null or
\* none in any letter case give 0, a native number is returned unchanged.
C18_CoercionNeverRaises ==
    fn \in {"safe_convert_to_float", "safe_convert_to_int"} =>
        /\ ~ret.raised
        /\ arg.value.kind = "none" => ret.val = Num(FZero)
        /\ (arg.value.kind = "num" /\ fn = "safe_convert_to_float") =>
               ret.val = Num(arg.value.v)
        /\ (arg.value.kind = "str" /\
            Lower(Strip(arg.value.v)) \in
                {<<>>, <<"n", "a", "n">>, <<"n", "u", "l", "l">>,
                 <<"n", "o", "n", "e">>}) => ret.val = Num(FZero)

\* ------------------------------------------------ claims: cleaned records

\* A numeric cell that is missing or a finite number.
FiniteOrMissing(c) == c.na \/ ~FIsInf(c.v)

\* C19: in every record of the cleaned table each numeric field (rating,
\* review_count, size_mb, installs, price_usd) is a finite number or the
\* missing value, whatever text the raw cells held.
C19_NumericFieldsFinite ==
    Cleaned =>
        \A i \in 1..Len(cleaned_data.rows) :
            LET r == cleaned_data.rows[i]
            IN  /\ FiniteOrMissing(r.rating)
                /\ FiniteOrMissing(r.review_count)
                /\ FiniteOrMissing(r.size_mb)
                /\ FiniteOrMissing(r.installs)
                /\ FiniteOrMissing(r.price_usd)

\* ---------------------------------------------------- claims: load failure

\* C20: when the source table of a phase cannot be loaded the run stops there
\* and the phase writes nothing: without googleplaystore.csv phase 1 leaves
\* no cleaned table and no cleaned file, execute_pipeline on a pipeline that
\* has loaded nothing returns with no cleaned table, and without the cleaned
\* file phase 2 fetches nothing, unifies nothing and leaves no unified file.
C20_LoadFailureWritesNothing ==
    /\ ~raw_file.some =>
          /\ pc \notin {"p1_loaded", "p1_cleaned", "p1_done"}
          /\ cleaned_data = NoTable /\ cleaned_csv = NoTable
    /\ pc = "p1_no_data" => (cleaned_data = NoTable /\ cleaned_csv = NoTable)
    /\ ~cleaned_csv.some =>
          /\ pc \notin {"p2_fetching", "p2_fetched", "p2_unified", "p2_done"}
          /\ term_i = 0 /\ itunes_data = NoTable /\ unified_data = NoTable
          /\ unified_csv = NoTable /\ unified_json = NoTable

C20_Witness ==
    /\ ~raw_file.some /\ raw_data = NoTable
    /\ pc = "p2_load_failed"
    /\ unified_csv = NoTable /\ unified_json = NoTable

\* ------------------------------------------------------- claims: outputs

RECURSIVE RecordsOf(_)
RecordsOf(log) ==
    IF log = <<>> THEN <<>>
    ELSE RecordsOf(SubSeq(log, 1, Len(log) - 1)) \o
         [i \in 1..Len(log[Len(log)].apps) |-> AppInfo(log[Len(log)].apps[i])]

FetchInOrder ==
    /\ Len(outbound) = term_i /\ term_i <= NumTerms
    /\ \A i \in 1..Len(outbound) : outbound[i].term = i
    /\ all_apps = RecordsOf(outbound)
    /\ pc \in {"p2_fetched", "p2_unified", "p2_crashed", "p2_done"} =>
          Len(outbound) = NumTerms

\* C22: whatever each call comes to (200, another status, an exception),
\* fetch_itunes_apps_free_api attempts every search term once, in list
\* order, with no retry; a failed call does not keep the later terms from
\* being attempted; the records of the successful calls are kept; and the
\* loop terminates.
C22_EveryTermOnce ==
    /\ []FetchInOrder
    /\ (pc = "p2_fetching") ~> (pc = "p2_fetched")

C22_Witness ==
    /\ pc = "p2_fetched"
    /\ outbound[1].outcome = "exception"
    /\ outbound[2].outcome = "status_200"
    /\ all_apps # <<>>

\* C23: between any two consecutive calls of requests.get the delay of
\* time.sleep(0.5) has elapsed, whatever the earlier call came to.
C23_DelayBetweenCalls ==
    \A i \in 1..(Len(outbound) - 1) : outbound[i].slept

\* ------------------------------------------------- claims: the statistics

\* The cells of one raw column that hold a well-formed value of the column.
ReviewsParsed(c) == ~c.na /\ WellFormedCount(Strip(c.v))
SizeParsed(c) == ~c.na /\ WellFormedSize(Strip(c.v))
InstallsParsed(c) ==
    ~c.na /\ ParseInt(Remove(WithoutTrailingPlus(Strip(c.v)), ",")).ok
PriceParsed(c) ==
    /\ ~c.na
    /\ \/ Strip(c.v) = <<"F", "r", "e", "e">>
       \/ IsDecimal(Remove(Strip(c.v), "$"))
DateParsed(c) == ~c.na /\ c.v \in DOMAIN KnownDates

\* C25: for each normalized column the recorded '*_converted' statistic is
\* the number of cells of the raw table that parsed, so that the number of
\* cells replaced by the fallback value can be read off; and no failing
\* cell aborts the run.
C25_ConvertedCountsParsed ==
    /\ pc # "p1_crashed"
    /\ Cleaned =>
          LET raw == raw_data.rows
          IN  /\ cleaning_stats.reviews_converted =
                   Cardinality({i \in 1..Len(raw) : ReviewsParsed(raw[i].raw.Reviews)})
              /\ cleaning_stats.size_converted =
                   Cardinality({i \in 1..Len(raw) : SizeParsed(raw[i].raw.Size)})
              /\ cleaning_stats.installs_converted =
                   Cardinality({i \in 1..Len(raw) : InstallsParsed(raw[i].raw.Installs)})
              /\ cleaning_stats.price_converted =
                   Cardinality({i \in 1..Len(raw) : PriceParsed(raw[i].raw.Price)})
              /\ cleaning_stats.dates_converted =
                   Cardinality({i \in 1..Len(raw) : DateParsed(raw[i].raw.Last_Updated)})

\* ------------------------------------------------ claims: the stage order

\* The place of a stage among the announced stages (0: not announced).
StageAt(name) ==
    IF \E i \in 1..Len(stages) : stages[i] = name
    THEN CHOOSE i \in 1..Len(stages) : stages[i] = name ELSE 0

\* C27: execute_pipeline runs its stages in the fixed order reviews, size,
\* installs, price, date, remove_duplicates, validate_data_quality,
\* create_unified_schema: deduplication never runs before the dates are
\* normalized, and the quality metrics and the cleaned table are computed
\* from the deduplicated rows only.
C27_StageOrder ==
    /\ stages = SubSeq(<<"reviews", "size", "installs", "price", "date",
                         "dedupe", "validate", "schema">>, 1, Len(stages))
    /\ StageAt("dedupe") # 0 => (0 < StageAt("date") /\ StageAt("date") < StageAt("dedupe"))
    /\ Cleaned =>
          /\ Len(stages) = 8
          /\ cleaning_stats.quality_metrics.total_apps = Len(cleaned_data.rows)
          /\ cleaning_stats.quality_metrics.total_apps =
                Len(raw_data.rows) - cleaning_stats.duplicates_removed
          /\ \A i, j \in 1..Len(cleaned_data.rows) :
                cleaned_data.rows[i].app_name = cleaned_data.rows[j].app_name => i = j
          /\ \A i \in 1..Len(cleaned_data.rows) :
                \E k \in 1..Len(raw_data.rows) :
                    /\ raw_data.rows[k].idx = cleaned_data.rows[i].idx
                    /\ cleaned_data.rows[i].last_updated =
                          convert_date(raw_data.rows[k].raw.Last_Updated)

C27_Witness ==
    /\ pc = "p1_cleaned"
    /\ stages[6] = "dedupe"
    /\ cleaning_stats.duplicates_removed > 0
    /\ cleaning_stats.quality_metrics.total_apps < Len(raw_data.rows)

\* --------------------------------------------- claims: iOS deduplication

Fetched == pc \in {"p2_fetched", "p2_unified", "p2_crashed", "p2_done"}

\* C28: after fetch_itunes_apps_free_api itunes_data holds at most one record
\* per trackId, the last one fetched with it; every record whose trackId is
\* absent or 0 is dropped; api_stats['itunes_apps_fetched'] is the number of
\* records kept; and no two iOS rows of the unified table share an app_id.
C28_OnePerTrackId ==
    /\ Fetched =>
          LET kept == itunes_data.rows
          IN  /\ \A i, j \in 1..Len(kept) : kept[i].trackId = kept[j].trackId => i = j
              /\ \A i \in 1..Len(kept) :
                    /\ kept[i].trackId.kind = "num" /\ kept[i].trackId.v # FZero
                    /\ \E k \in 1..Len(all_apps) :
                          /\ all_apps[k] = kept[i]
                          /\ \A m \in (k + 1)..Len(all_apps) :
                                all_apps[m].trackId # kept[i].trackId
              /\ \A k \in 1..Len(all_apps) :
                    (all_apps[k].trackId.kind = "num" /\ all_apps[k].trackId.v # FZero) =>
                        \E i \in 1..Len(kept) : kept[i].trackId = all_apps[k].trackId
              /\ api_stats.itunes_apps_fetched = Len(kept)
    /\ Unified =>
          \A i, j \in 1..Len(URows) :
              (URows[i].platform = "iOS" /\ URows[j].platform = "iOS"
                  /\ URows[i].app_id = URows[j].app_id) => i = j

C28_Witness ==
    /\ pc = "p2_unified"
    /\ Len(all_apps) = 5
    /\ all_apps[1].trackId = all_apps[5].trackId
    /\ all_apps[4].trackId = PyNum(FZero)
    /\ Len(itunes_data.rows) = 3
    /\ itunes_data.rows[1].trackName = "Sudoku Pro"

\* ------------------------------------------------ claims: category table

\* C29: the category mapping is idempotent: mapping the category a label was
\* mapped to gives that category again, for known and unknown labels; that
\* is, every value of the table of map_categories is no key of it or is
\* mapped to itself.
C29_MappingIdempotent ==
    /\ fn = "map_categories_again" => ret = Returns(MapCategory(arg.label))
    /\ fn = "map_categories" =>
          (ret.val.na \/ ret.val.v \notin DOMAIN map_categories
              \/ MapCategory(ret.val) = ret.val)

C29_Witness ==
    /\ fn = "map_categories_again"
    /\ arg.label = Text("Social Networking")
    /\ ret.val = Text("Social")

\* ------------------------------------------------------------ C26

\* C26: no operation of the reporting collaborators (the query methods and
\* the loop of the query engine, the generators and the save of the insights
\* generator, the dashboard) writes the unified CSV or JSON file or changes
\* the rows of a unified table an object has loaded, whatever the order and
\* the number of the operations: every step leaves the two files as they
\* were, and a loaded table holds what read_csv gave and keeps it.
C26_ReportingReadsOnly ==
    [][/\ unified_csv' = unified_csv
       /\ unified_json' = unified_json
       /\ engine_data.some => engine_data = ReadUnifiedCsv(unified_csv)
       /\ generator_data.some => generator_data = ReadUnifiedCsv(unified_csv)
       /\ (engine_data.some /\ engine_data'.some) => engine_data' = engine_data
       /\ (generator_data.some /\ generator_data'.some)
             => generator_data' = generator_data]_vars

\* Phase 3 has generated and saved all four insights, the query engine has
\* loaded the three-row table and, in its loop, has run the pricing query.
C26_Witness ==
    /\ pc = "q_prompt"
    /\ insights_report = Report(InsightKinds)
    /\ insights_data = insights_report
    /\ Len(engine_data.rows) = 3
    /\ entered = Input("line", Cmd.pricing, FALSE)
    /\ printed = "pricing_insights"

\* ------------------------------------------------------------ C30

\* The line of the last iteration, as the loop compares it.
LastQuery == Lower(Strip(entered.text))

LoopRan == pc \in {"q_prompt", "q_ended"} /\ entered.kind # "none"

IsQuit == entered.kind = "line" /\ LastQuery \in {Cmd.quit, Cmd.exit}

Interrupted == entered.kind = "interrupt" \/ (entered.kind = "line" /\ entered.ctrl_c)

\* The line names no command of the loop.
NoCommand ==
    /\ LastQuery \notin {Cmd.quit, Cmd.exit, Cmd.help, Cmd.platforms, Cmd.pricing,
                         Cmd.opportunities, Cmd.insights, Cmd.summary}
    /\ ~StartsWith(LastQuery, Cmd.category)
    /\ ~StartsWith(LastQuery, Cmd.categories)

\* 'categories' with a limit that is no integer
MalformedLimit ==
    /\ StartsWith(LastQuery, Cmd.categories)
    /\ Len(Split(LastQuery)) > 1
    /\ ~ParseInt(Split(LastQuery)[2]).ok

\* 'category' without a name
MissingName ==
    /\ StartsWith(LastQuery, Cmd.category)
    /\ ~StartsWith(LastQuery, Cmd.categories)
    /\ Len(Split(LastQuery)) <= 1

\* The line asks for a query that reads the unified table.
NeedsData ==
    \/ StartsWith(LastQuery, Cmd.categories)
    \/ StartsWith(LastQuery, Cmd.category) /\ Len(Split(LastQuery)) > 1
    \/ LastQuery \in {Cmd.platforms, Cmd.pricing, Cmd.opportunities, Cmd.summary}

\* A line other than quit/exit was handled without a keyboard interrupt.
OtherInput == LoopRan /\ entered.kind = "line" /\ ~entered.ctrl_c /\ ~IsQuit

\* C30 (as stated): after any input other than quit/exit that is an unknown
\* command, has a malformed argument or asks for a query that raises because
\* the data failed to load, the loop has reported the problem and is back
\* at the prompt.
C30_ProblemReported ==
    (OtherInput /\ (NoCommand \/ MalformedLimit \/ MissingName
                    \/ (NeedsData /\ ~engine_data.some)))
    => (pc = "q_prompt" /\ printed \in {"unknown", "usage", "error"})

\* C30 (amended): the loop has ended only after quit or exit or a keyboard
\* interrupt; after any other line, and after an end of input, it is back at
\* the prompt, having reported an unknown command, a missing category name
\* and a query that raised because the data failed to load; a malformed
\* limit of 'categories' is not reported: with the data loaded the loop
\* shows the top categories with the default limit.
C30_LoopEndsOnlyOnQuit ==
    /\ (LoopRan /\ pc = "q_ended") => (IsQuit \/ Interrupted)
    /\ (LoopRan /\ entered.kind = "eof") => (pc = "q_prompt" /\ printed = "error")
    /\ OtherInput =>
          /\ pc = "q_prompt"
          /\ NoCommand => printed = "unknown"
          /\ MissingName => printed = "usage"
          /\ (NeedsData /\ ~engine_data.some) => printed = "error"
          /\ (MalformedLimit /\ engine_data.some) => printed = "top_categories"

\* The data failed to load, 'platforms' was typed, the query raised, and the
\* loop is back at the prompt after the error message.
C30_Witness ==
    /\ pc = "q_prompt"
    /\ ~engine_data.some
    /\ entered = Input("line", Cmd.platforms, FALSE)
    /\ printed = "error"

====
